---- MODULE Spec2Model ----
(***************************************************************************)
(* A model of the natural-language-to-ES|QL translation core of            *)
(* src/ai/mcp/elastic-security-mcp/server.py: the rule-based parser        *)
(* (NLParser.parse), the intent validator (validate_query_intent), the     *)
(* time-range decoder (parse_time_range), the query generator              *)
(* (generate_esql), the validator of raw queries (validate_esql_query)     *)
(* and the MCP tools wrapped around them.                                  *)
(*                                                                         *)
(* Spec serves the calls one at a time, each call as one step.             *)
(* SpecRequests runs the statements of NLParser.parse for several requests *)
(* at a time, on objects held by address.                                  *)
(*                                                                         *)
(* Python strings are TLA+ strings, handled character by character with    *)
(* Len, SubSeq and \o.  Python values that can be None, or that come out   *)
(* of a JSON document, are tagged records (JNull, JStr, JNum, ...).        *)
(***************************************************************************)
EXTENDS Integers, Sequences, FiniteSets, TLC

(***************************************************************************)
(* Bounds of the model.                                                    *)
(***************************************************************************)
\* the number of phrases an input text is made of
MaxPhrases == 2
\* the number of '_'-separated tokens of a programmatic time_range string
MaxParts == 3

(***************************************************************************)
(* Characters and strings.                                                 *)
(***************************************************************************)
Char(s, i) == SubSeq(s, i, i)

Digits == {"0", "1", "2", "3", "4", "5", "6", "7", "8", "9"}

LowerLetters ==
  {"a", "b", "c", "d", "e", "f", "g", "h", "i", "j", "k", "l", "m",
   "n", "o", "p", "q", "r", "s", "t", "u", "v", "w", "x", "y", "z"}

UpperLetters ==
  {"A", "B", "C", "D", "E", "F", "G", "H", "I", "J", "K", "L", "M",
   "N", "O", "P", "Q", "R", "S", "T", "U", "V", "W", "X", "Y", "Z"}

\* the characters str.strip() and int() treat as white space
Whitespace == {" "}

LowerOf ==
  [A |-> "a", B |-> "b", C |-> "c", D |-> "d", E |-> "e", F |-> "f",
   G |-> "g", H |-> "h", I |-> "i", J |-> "j", K |-> "k", L |-> "l",
   M |-> "m", N |-> "n", O |-> "o", P |-> "p", Q |-> "q", R |-> "r",
   S |-> "s", T |-> "t", U |-> "u", V |-> "v", W |-> "w", X |-> "x",
   Y |-> "y", Z |-> "z"]

UpperOf ==
  [a |-> "A", b |-> "B", c |-> "C", d |-> "D", e |-> "E", f |-> "F",
   g |-> "G", h |-> "H", i |-> "I", j |-> "J", k |-> "K", l |-> "L",
   m |-> "M", n |-> "N", o |-> "O", p |-> "P", q |-> "Q", r |-> "R",
   s |-> "S", t |-> "T", u |-> "U", v |-> "V", w |-> "W", x |-> "X",
   y |-> "Y", z |-> "Z"]

LowerChar(c) == IF c \in UpperLetters THEN LowerOf[c] ELSE c

UpperChar(c) == IF c \in LowerLetters THEN UpperOf[c] ELSE c

RECURSIVE lower(_)
\* str.lower()
lower(s) ==
  IF s = "" THEN ""
  ELSE IF Len(s) = 1 THEN LowerChar(Head(s))
  ELSE lower(SubSeq(s, 1, Len(s) \div 2))
         \o lower(SubSeq(s, (Len(s) \div 2) + 1, Len(s)))

RECURSIVE upper(_)
\* str.upper()
upper(s) ==
  IF s = "" THEN ""
  ELSE IF Len(s) = 1 THEN UpperChar(Head(s))
  ELSE upper(SubSeq(s, 1, Len(s) \div 2))
         \o upper(SubSeq(s, (Len(s) \div 2) + 1, Len(s)))

\* str.title() of a single word: first letter upper case, the rest lower
title(s) ==
  IF s = "" THEN "" ELSE UpperChar(Head(s)) \o lower(Tail(s))

RECURSIVE lstrip(_)
lstrip(s) ==
  IF s # "" /\ Head(s) \in Whitespace THEN lstrip(Tail(s)) ELSE s

RECURSIVE rstrip(_)
rstrip(s) ==
  IF s # "" /\ Char(s, Len(s)) \in Whitespace
  THEN rstrip(SubSeq(s, 1, Len(s) - 1))
  ELSE s

\* str.strip()
strip(s) == rstrip(lstrip(s))

\* the literal lit occurs in s at position i
MatchAt(s, i, lit) ==
  /\ i >= 1
  /\ i + Len(lit) - 1 <= Len(s)
  /\ SubSeq(s, i, i + Len(lit) - 1) = lit

\* lit in s
Contains(s, lit) == \E i \in 1..(Len(s) + 1) : MatchAt(s, i, lit)

\* s.startswith(lit)
StartsWith(s, lit) == MatchAt(s, 1, lit)

RECURSIVE RunEnd(_, _, _)
\* the last position of the longest run of characters of class cls that
\* starts at position i of s (i - 1 when the run is empty): what a greedy
\* \d+ or \w+ consumes
RunEnd(s, i, cls) ==
  IF i <= Len(s) /\ Char(s, i) \in cls THEN RunEnd(s, i + 1, cls) ELSE i - 1

\* the characters the regular expression class \w matches
WordChars == Digits \cup LowerLetters \cup UpperLetters \cup {"_"}

\* re.search of  pre(C+)post  in s, where C is a character class, pre and
\* post are literals and post does not start with a character of C (true of
\* every such pattern of the source), so that the greedy C+ takes the longest
\* run.  The match is the leftmost one; group is what (C+) captured.
Search(s, pre, cls, post) ==
  LET Hit(i) == /\ MatchAt(s, i, pre)
                /\ RunEnd(s, i + Len(pre), cls) >= i + Len(pre)
                /\ MatchAt(s, RunEnd(s, i + Len(pre), cls) + 1, post)
  IN IF \E i \in 1..Len(s) : Hit(i)
     THEN LET i == CHOOSE k \in 1..Len(s) :
                     Hit(k) /\ \A j \in 1..(k - 1) : ~Hit(j)
          IN [found |-> TRUE,
              group |-> SubSeq(s, i + Len(pre), RunEnd(s, i + Len(pre), cls))]
     ELSE [found |-> FALSE, group |-> ""]

RECURSIVE split(_, _)
\* str.split(sep) for a one-character separator
split(s, sep) ==
  IF \E i \in 1..Len(s) : Char(s, i) = sep
  THEN LET i == CHOOSE k \in 1..Len(s) :
                  /\ Char(s, k) = sep
                  /\ \A j \in 1..(k - 1) : Char(s, j) # sep
       IN <<SubSeq(s, 1, i - 1)>> \o split(SubSeq(s, i + 1, Len(s)), sep)
  ELSE <<s>>

RECURSIVE join(_, _)
\* sep.join(parts)
join(parts, sep) ==
  IF Len(parts) = 0 THEN ""
  ELSE IF Len(parts) = 1 THEN parts[1]
  ELSE parts[1] \o sep \o join(Tail(parts), sep)

(***************************************************************************)
(* Integers as text.                                                       *)
(***************************************************************************)
DigitVal ==
  [c \in Digits |->
     CASE c = "0" -> 0 [] c = "1" -> 1 [] c = "2" -> 2 [] c = "3" -> 3
       [] c = "4" -> 4 [] c = "5" -> 5 [] c = "6" -> 6 [] c = "7" -> 7
       [] c = "8" -> 8 [] c = "9" -> 9]

DigitChar == <<"0", "1", "2", "3", "4", "5", "6", "7", "8", "9">>

RECURSIVE NatToStr(_)
NatToStr(n) ==
  IF n < 10 THEN DigitChar[n + 1]
  ELSE NatToStr(n \div 10) \o DigitChar[(n % 10) + 1]

\* str(n), and the text an f-string puts for an int
IntToStr(n) == IF n < 0 THEN "-" \o NatToStr(0 - n) ELSE NatToStr(n)

RECURSIVE DigitsToNat(_, _)
DigitsToNat(s, acc) ==
  IF s = "" THEN acc
  ELSE DigitsToNat(Tail(s), acc * 10 + DigitVal[Head(s)])

AllDigits(s) == s # "" /\ \A i \in 1..Len(s) : Char(s, i) \in Digits

\* int(s) of Python: white space around is dropped, one sign is allowed,
\* then decimal digits; anything else raises ValueError (ok = FALSE)
PyInt(s) ==
  LET body == strip(s)
      signed == body # "" /\ Head(body) \in {"+", "-"}
      digits == IF signed THEN Tail(body) ELSE body
  IN IF AllDigits(digits)
     THEN [ok |-> TRUE,
           val |-> IF signed /\ Head(body) = "-"
                   THEN 0 - DigitsToNat(digits, 0)
                   ELSE DigitsToNat(digits, 0)]
     ELSE [ok |-> FALSE, val |-> 0]

(***************************************************************************)
(* Python values: None, and what json.loads returns.                       *)
(***************************************************************************)
JNull == [t |-> "null"]
JBool(b) == [t |-> "bool", b |-> b]
JNum(n) == [t |-> "num", n |-> n]
JStr(s) == [t |-> "str", s |-> s]
JArr(a) == [t |-> "arr", a |-> a]
JObj(o) == [t |-> "obj", o |-> o]

\* bool(v): the truth value Python gives v in  if v:  and  v or w
PyTruthy(v) ==
  CASE v.t = "null" -> FALSE
    [] v.t = "bool" -> v.b
    [] v.t = "num" -> v.n # 0
    [] v.t = "str" -> v.s # ""
    [] v.t = "arr" -> Len(v.a) > 0
    [] v.t = "obj" -> DOMAIN v.o # {}

\* repr(v) of a scalar (strings of the model hold no quote character)
PyRepr(v) ==
  CASE v.t = "null" -> "None"
    [] v.t = "bool" -> IF v.b THEN "True" ELSE "False"
    [] v.t = "num" -> IntToStr(v.n)
    [] v.t = "str" -> "'" \o v.s \o "'"

\* str(v): the text an f-string puts for {v}
PyStr(v) ==
  CASE v.t = "str" -> v.s
    [] v.t \in {"null", "bool", "num"} -> PyRepr(v)
    [] v.t = "arr" ->
         "[" \o join([i \in 1..Len(v.a) |-> PyRepr(v.a[i])], ", ") \o "]"

\* x in seq, for a list seq
InSeq(x, seq) == \E k \in 1..Len(seq) : seq[k] = x

\* d.get(key, default)
Get(d, key, default) == IF key \in DOMAIN d THEN d[key] ELSE default

(***************************************************************************)
(* Data model and policy.                                                  *)
(***************************************************************************)
\* ValidationPolicy.MAX_TIME_RANGE_HOURS
MAX_TIME_RANGE_HOURS == 168

\* ValidationPolicy.MAX_LIMIT
MAX_LIMIT == 1000

\* the default of QueryIntent.limit
DefaultLimit == 100

\* QueryIntent(): every field at its default.  category, outcome, time_range
\* and index_pattern are None or a str, aggregation is None or a dict,
\* filters is a list of dicts, limit is an int.
QueryIntent ==
  [category |-> JNull, outcome |-> JNull, time_range |-> JNull,
   filters |-> <<>>, aggregation |-> JNull, index_pattern |-> JNull,
   limit |-> DefaultLimit]

(***************************************************************************)
(* NLParser.                                                               *)
(***************************************************************************)
\* category_patterns with the process pattern before the authentication one
category_patterns_ProcessFirst ==
  <<[words |-> {"process", "spawn", "exec", "run"}, category |-> "process"],
    [words |-> {"auth", "login", "logon", "sign"}, category |-> "authentication"],
    [words |-> {"network", "connection", "traffic"}, category |-> "network"],
    [words |-> {"file", "create", "delete", "modify"}, category |-> "file"]>>

\* NLParser.category_patterns, in the order of the dict: the alternatives of
\* each pattern are literals, so the pattern matches when one of them is a
\* substring of the text
category_patterns ==
  <<[words |-> {"auth", "login", "logon", "sign"}, category |-> "authentication"],
    [words |-> {"process", "spawn", "exec", "run"}, category |-> "process"],
    [words |-> {"network", "connection", "traffic"}, category |-> "network"],
    [words |-> {"file", "create", "delete", "modify"}, category |-> "file"]>>

\* outcome_patterns with the fail pattern before the success one
outcome_patterns_FailFirst ==
  <<[stem |-> "fail", outcome |-> "failure"],
    [stem |-> "success", outcome |-> "success"],
    [stem |-> "block", outcome |-> "failure"],
    [stem |-> "allow", outcome |-> "success"]>>

\* NLParser.outcome_patterns, in the order of the dict: the optional suffix
\* groups (?:ful|es)?, (?:ed|ure)s?, (?:ed)? never decide whether re.search
\* matches, so each pattern matches when its stem is a substring of the text
outcome_patterns ==
  <<[stem |-> "success", outcome |-> "success"],
    [stem |-> "fail", outcome |-> "failure"],
    [stem |-> "block", outcome |-> "failure"],
    [stem |-> "allow", outcome |-> "success"]>>

\* a loop that stops at the first hit, as  for ... : if ...: ... break :
\* the index of the first TRUE of the sequence hits, 0 if there is none
FirstIndex(hits) ==
  IF \E i \in 1..Len(hits) : hits[i]
  THEN CHOOSE i \in 1..Len(hits) : hits[i] /\ \A j \in 1..(i - 1) : ~hits[j]
  ELSE 0

\* the category loop of NLParser.parse: the first matching pattern sets
\* category and, for three of the categories, index_pattern
ParseCategory(q) ==
  LET Hit(p) == \E w \in p.words : Contains(q, w)
      k == FirstIndex([i \in 1..Len(category_patterns) |-> Hit(category_patterns[i])])
  IN IF k = 0 THEN [category |-> JNull, index_pattern |-> JNull]
     ELSE LET c == category_patterns[k].category
          IN [category |-> JStr(c),
              index_pattern |->
                CASE c = "authentication" -> JStr("logs-auth-*")
                  [] c = "process" -> JStr("logs-endpoint-*")
                  [] c = "network" -> JStr("logs-network-*")
                  [] OTHER -> JNull]

\* the time loop of NLParser.parse with the pattern 'last day' tried first
ParseTimeRange_LastDayFirst(q) ==
  LET lastHours == Search(q, "last ", Digits, " hour")
      pastHours == Search(q, "past ", Digits, " hour")
      lastDays == Search(q, "last ", Digits, " day")
  IN IF Contains(q, "last day") THEN JStr("last_24_hours")
     ELSE IF lastHours.found THEN JStr("last_" \o lastHours.group \o "_hours")
     ELSE IF pastHours.found THEN JStr("last_" \o pastHours.group \o "_hours")
     ELSE IF lastDays.found
     THEN JStr("last_" \o IntToStr(PyInt(lastDays.group).val * 24) \o "_hours")
     ELSE IF Contains(q, "last hour") THEN JStr("last_1_hours")
     ELSE IF Contains(q, "today") THEN JStr("last_24_hours")
     ELSE JNull

\* NLParser.time_patterns and the loop over them in NLParser.parse: the
\* first pattern, in the order of the dict, that matches gives time_range
ParseTimeRange(q) ==
  LET lastHours == Search(q, "last ", Digits, " hour")
      pastHours == Search(q, "past ", Digits, " hour")
      lastDays == Search(q, "last ", Digits, " day")
  IN CASE lastHours.found -> JStr("last_" \o lastHours.group \o "_hours")
       [] ~lastHours.found /\ pastHours.found ->
            JStr("last_" \o pastHours.group \o "_hours")
       [] ~lastHours.found /\ ~pastHours.found /\ lastDays.found ->
            JStr("last_" \o IntToStr(PyInt(lastDays.group).val * 24) \o "_hours")
       [] OTHER ->
            IF Contains(q, "last day") THEN JStr("last_24_hours")
            ELSE IF Contains(q, "last hour") THEN JStr("last_1_hours")
            ELSE IF Contains(q, "today") THEN JStr("last_24_hours")
            ELSE JNull

\* the outcome loop of NLParser.parse
ParseOutcome(q) ==
  LET Hit(p) == Contains(q, p.stem)
      k == FirstIndex([i \in 1..Len(outcome_patterns) |-> Hit(outcome_patterns[i])])
  IN IF k = 0 THEN JNull ELSE JStr(outcome_patterns[k].outcome)

\* the list countries of NLParser.parse
countries == <<"china", "russia", "iran", "usa", "uk", "germany", "france">>

\* the list protocols with 'https' before 'http'
protocols_HttpsFirst == <<"ssh", "rdp", "https", "http", "ftp", "smb">>

\* the list protocols of NLParser.parse
protocols == <<"ssh", "rdp", "http", "https", "ftp", "smb">>

\* a filter dict as NLParser.parse builds it
Filter(field, value) ==
  [field |-> JStr(field), operator |-> JStr("=="), value |-> JStr(value)]

\* the country loop of NLParser.parse without its break: one filter for
\* every country of the list that occurs in the text
ParseCountry_NoBreak(q) ==
  LET hits == {i \in 1..Len(countries) : Contains(q, countries[i])}
      RECURSIVE From(_)
      From(i) ==
        IF i > Len(countries) THEN <<>>
        ELSE (IF i \in hits
              THEN <<Filter("source.geo.country_name", title(countries[i]))>>
              ELSE <<>>) \o From(i + 1)
  IN From(1)

\* the country loop of NLParser.parse: the filters it appends
ParseCountry(q) ==
  LET Hit(c) == Contains(q, c)
      k == FirstIndex([i \in 1..Len(countries) |-> Hit(countries[i])])
  IN IF k = 0 THEN <<>>
     ELSE <<Filter("source.geo.country_name", title(countries[k]))>>

\* the protocol loop of NLParser.parse: the filters it appends
ParseProtocol(q) ==
  LET Hit(p) == Contains(q, p)
      k == FirstIndex([i \in 1..Len(protocols) |-> Hit(protocols[i])])
  IN IF k = 0 THEN <<>> ELSE <<Filter("network.protocol", protocols[k])>>

\* the aggregation test of NLParser.parse
ParseAggregation(q) ==
  IF \E phrase \in {"by user", "per user", "group by user"} : Contains(q, phrase)
  THEN JObj([type |-> JStr("stats"), function |-> JStr("count()"),
             group_by |-> JArr(<<JStr("user.name")>>)])
  ELSE JNull

\* parent_patterns of NLParser.parse and the loop over them, run only when
\* category is process: the filters it appends
ParseParent(q, category) ==
  LET spawned == Search(q, "spawned by ", WordChars, "")
      fromExe == Search(q, "from ", WordChars, ".exe")
      process == Search(q, "", WordChars, " process")
  IN IF category # JStr("process") THEN <<>>
     ELSE IF spawned.found THEN <<Filter("process.parent.name", spawned.group)>>
     ELSE IF fromExe.found
          THEN <<Filter("process.parent.name", fromExe.group \o ".exe")>>
     ELSE IF process.found THEN <<Filter("process.parent.name", process.group)>>
     ELSE <<>>

\* NLParser.parse
parse(query) ==
  LET query_lower == lower(query)
      cat == ParseCategory(query_lower)
  IN [category |-> cat.category,
      outcome |-> ParseOutcome(query_lower),
      time_range |-> ParseTimeRange(query_lower),
      filters |-> ParseCountry(query_lower) \o ParseProtocol(query_lower)
                    \o ParseParent(query_lower, cat.category),
      aggregation |-> ParseAggregation(query_lower),
      index_pattern |-> cat.index_pattern,
      limit |-> QueryIntent.limit]

(***************************************************************************)
(* Helper functions: validation, time-range decoding, generation.          *)
(***************************************************************************)
\* parse_time_range reading the third token instead of the second
parse_time_range_WrongToken(time_range) ==
  LET parts == split(time_range, "_")
  IN IF Contains(time_range, "_") /\ Len(parts) >= 3 /\ PyInt(parts[3]).ok
     THEN PyInt(parts[3]).val
     ELSE 24

\* parse_time_range falling back to 0 instead of 24
parse_time_range_DefaultZero(time_range) ==
  LET parts == split(time_range, "_")
  IN IF Contains(time_range, "_") /\ Len(parts) >= 2 /\ PyInt(parts[2]).ok
     THEN PyInt(parts[2]).val
     ELSE 0

\* parse_time_range: the second '_'-separated token as an int, else 24
parse_time_range(time_range) ==
  LET parts == split(time_range, "_")
  IN IF Contains(time_range, "_") /\ Len(parts) >= 2 /\ PyInt(parts[2]).ok
     THEN PyInt(parts[2]).val
     ELSE 24

\* validate_query_intent with the time-range-required rule left out
validate_query_intent_NoRequiredRule(intent) ==
  LET hours == parse_time_range(intent.time_range.s)
      errors ==
        IF PyTruthy(intent.time_range) /\ hours > MAX_TIME_RANGE_HOURS
        THEN <<"Time range " \o IntToStr(hours) \o "h exceeds maximum "
                 \o IntToStr(MAX_TIME_RANGE_HOURS) \o "h">>
        ELSE <<>>
  IN [is_valid |-> Len(errors) = 0, errors |-> errors]

\* validate_query_intent with the bound tested by >= instead of >
validate_query_intent_OffByOne(intent) ==
  LET required ==
        IF ~PyTruthy(intent.time_range) /\ ~PyTruthy(intent.aggregation)
        THEN <<"Time range required for safety">>
        ELSE <<>>
      hours == parse_time_range(intent.time_range.s)
      bounds ==
        IF PyTruthy(intent.time_range) /\ hours >= MAX_TIME_RANGE_HOURS
        THEN <<"Time range " \o IntToStr(hours) \o "h exceeds maximum "
                 \o IntToStr(MAX_TIME_RANGE_HOURS) \o "h">>
        ELSE <<>>
      errors == required \o bounds
  IN [is_valid |-> Len(errors) = 0, errors |-> errors]

\* validate_query_intent: the pair (is_valid, errors)
validate_query_intent(intent) ==
  LET required ==
        IF ~PyTruthy(intent.time_range) /\ ~PyTruthy(intent.aggregation)
        THEN <<"Time range required for safety">>
        ELSE <<>>
      hours == parse_time_range(intent.time_range.s)
      bounds ==
        IF PyTruthy(intent.time_range) /\ hours > MAX_TIME_RANGE_HOURS
        THEN <<"Time range " \o IntToStr(hours) \o "h exceeds maximum "
                 \o IntToStr(MAX_TIME_RANGE_HOURS) \o "h">>
        ELSE <<>>
      errors == required \o bounds
  IN [is_valid |-> Len(errors) = 0, errors |-> errors]

\* the loop over intent.filters of generate_esql: the conditions it appends
RECURSIVE FilterConditions(_)
FilterConditions(filters) ==
  IF Len(filters) = 0 THEN <<>>
  ELSE LET filter_item == Head(filters)
           field == Get(filter_item, "field", JNull)
           operator == Get(filter_item, "operator", JStr("=="))
           value == Get(filter_item, "value", JNull)
       IN (IF PyTruthy(field) /\ PyTruthy(value)
           THEN <<PyStr(field) \o " " \o PyStr(operator) \o " \""
                    \o PyStr(value) \o "\"">>
           ELSE <<>>)
          \o FilterConditions(Tail(filters))

\* ', '.join(group_by) raises TypeError unless group_by is a str or a
\* sequence of str (no input of the model gives it a dict)
Joinable(group_by) ==
  \/ group_by.t = "str"
  \/ group_by.t = "arr" /\ \A i \in 1..Len(group_by.a) : group_by.a[i].t = "str"

\* ', '.join(group_by): a str is joined character by character
JoinGroupBy(group_by) ==
  IF group_by.t = "str"
  THEN join([i \in 1..Len(group_by.s) |-> Char(group_by.s, i)], ", ")
  ELSE join([i \in 1..Len(group_by.a) |-> group_by.a[i].s], ", ")

\* generate_esql appending the category condition before the time bound
generate_esql_CategoryFirst(intent) ==
  LET from == "FROM " \o (IF PyTruthy(intent.index_pattern)
                          THEN intent.index_pattern.s ELSE "logs-*")
      where_conditions ==
        (IF PyTruthy(intent.category)
         THEN <<"event.category == \"" \o intent.category.s \o "\"">>
         ELSE <<>>)
        \o (IF PyTruthy(intent.time_range)
            THEN <<"@timestamp >= NOW() - "
                     \o IntToStr(parse_time_range(intent.time_range.s)) \o "h">>
            ELSE <<>>)
        \o (IF PyTruthy(intent.outcome)
            THEN <<"event.outcome == \"" \o intent.outcome.s \o "\"">>
            ELSE <<>>)
        \o FilterConditions(intent.filters)
      where ==
        IF Len(where_conditions) > 0
        THEN <<"| WHERE " \o join(where_conditions, " AND ")>>
        ELSE <<>>
      agg == intent.aggregation.o
      isStats == /\ PyTruthy(intent.aggregation)
                 /\ Get(agg, "type", JNull) = JStr("stats")
      function == Get(agg, "function", JStr("count()"))
      group_by == Get(agg, "group_by", JArr(<<>>))
      stats ==
        IF ~isStats THEN <<>>
        ELSE IF PyTruthy(group_by)
        THEN <<"| STATS " \o PyStr(function) \o " BY " \o JoinGroupBy(group_by)>>
        ELSE <<"| STATS " \o PyStr(function)>>
      limit == <<"| LIMIT " \o IntToStr(intent.limit)>>
  IN IF isStats /\ PyTruthy(group_by) /\ ~Joinable(group_by)
     THEN [raised |-> TRUE, query |-> ""]
     ELSE [raised |-> FALSE,
           query |-> join(<<from>> \o where \o stats \o limit, " ")]

\* generate_esql appending the WHERE clause even without any condition
generate_esql_WhereAlways(intent) ==
  LET from == "FROM " \o (IF PyTruthy(intent.index_pattern)
                          THEN intent.index_pattern.s ELSE "logs-*")
      where_conditions ==
        (IF PyTruthy(intent.time_range)
         THEN <<"@timestamp >= NOW() - "
                  \o IntToStr(parse_time_range(intent.time_range.s)) \o "h">>
         ELSE <<>>)
        \o (IF PyTruthy(intent.category)
            THEN <<"event.category == \"" \o intent.category.s \o "\"">>
            ELSE <<>>)
        \o (IF PyTruthy(intent.outcome)
            THEN <<"event.outcome == \"" \o intent.outcome.s \o "\"">>
            ELSE <<>>)
        \o FilterConditions(intent.filters)
      where ==
        <<"| WHERE " \o join(where_conditions, " AND ")>>
      agg == intent.aggregation.o
      isStats == /\ PyTruthy(intent.aggregation)
                 /\ Get(agg, "type", JNull) = JStr("stats")
      function == Get(agg, "function", JStr("count()"))
      group_by == Get(agg, "group_by", JArr(<<>>))
      stats ==
        IF ~isStats THEN <<>>
        ELSE IF PyTruthy(group_by)
        THEN <<"| STATS " \o PyStr(function) \o " BY " \o JoinGroupBy(group_by)>>
        ELSE <<"| STATS " \o PyStr(function)>>
      limit == <<"| LIMIT " \o IntToStr(intent.limit)>>
  IN IF isStats /\ PyTruthy(group_by) /\ ~Joinable(group_by)
     THEN [raised |-> TRUE, query |-> ""]
     ELSE [raised |-> FALSE,
           query |-> join(<<from>> \o where \o stats \o limit, " ")]

\* generate_esql: raised tells whether the call raised instead of returning;
\* query is the string returned
generate_esql(intent) ==
  LET from == "FROM " \o (IF PyTruthy(intent.index_pattern)
                          THEN intent.index_pattern.s ELSE "logs-*")
      where_conditions ==
        (IF PyTruthy(intent.time_range)
         THEN <<"@timestamp >= NOW() - "
                  \o IntToStr(parse_time_range(intent.time_range.s)) \o "h">>
         ELSE <<>>)
        \o (IF PyTruthy(intent.category)
            THEN <<"event.category == \"" \o intent.category.s \o "\"">>
            ELSE <<>>)
        \o (IF PyTruthy(intent.outcome)
            THEN <<"event.outcome == \"" \o intent.outcome.s \o "\"">>
            ELSE <<>>)
        \o FilterConditions(intent.filters)
      where ==
        IF Len(where_conditions) > 0
        THEN <<"| WHERE " \o join(where_conditions, " AND ")>>
        ELSE <<>>
      agg == intent.aggregation.o
      isStats == /\ PyTruthy(intent.aggregation)
                 /\ Get(agg, "type", JNull) = JStr("stats")
      function == Get(agg, "function", JStr("count()"))
      group_by == Get(agg, "group_by", JArr(<<>>))
      stats ==
        IF ~isStats THEN <<>>
        ELSE IF PyTruthy(group_by)
        THEN <<"| STATS " \o PyStr(function) \o " BY " \o JoinGroupBy(group_by)>>
        ELSE <<"| STATS " \o PyStr(function)>>
      limit == <<"| LIMIT " \o IntToStr(intent.limit)>>
  IN IF isStats /\ PyTruthy(group_by) /\ ~Joinable(group_by)
     THEN [raised |-> TRUE, query |-> ""]
     ELSE [raised |-> FALSE,
           query |-> join(<<from>> \o where \o stats \o limit, " ")]

(***************************************************************************)
(* The boundary of the tools: parameter models, JSON decoding, asdict.     *)
(***************************************************************************)
\* NLQueryParams.validate_query: a query shorter than 3 characters once
\* stripped is refused (ValueError); the query kept is the stripped one
NLQueryParams(text) ==
  [ok |-> text # "" /\ Len(strip(text)) >= 3, query |-> strip(text)]

\* QueryIntent is declared as a pydantic BaseModel, not with @dataclass
QueryIntentIsDataclass == FALSE

\* dataclasses.asdict(intent): raises TypeError unless the class of its
\* argument is a dataclass
asdict(intent) ==
  IF QueryIntentIsDataclass
  THEN [raised |-> FALSE, value |-> intent, error |-> ""]
  ELSE [raised |-> TRUE, value |-> intent,
        error |-> "asdict() should be called on dataclass instances"]

\* a field declared Optional[str] accepts None and str
IsOptionalStr(v) == v.t \in {"null", "str"}

\* a field declared Optional[Dict] accepts None and dict
IsOptionalDict(v) == v.t \in {"null", "obj"}

\* a field declared List[Dict] accepts a list whose elements are dicts
IsListOfDict(v) ==
  v.t = "arr" /\ \A i \in 1..Len(v.a) : v.a[i].t = "obj"

\* a field declared int accepts an int and a str that reads as an int
\* (no document of the model gives it a bool)
IsInt(v) ==
  \/ v.t = "num"
  \/ v.t = "str" /\ PyInt(v.s).ok

\* the int a field declared int takes from an accepted value
AsInt(v) == IF v.t = "num" THEN v.n ELSE PyInt(v.s).val

\* QueryIntent(**intent_data): TypeError when intent_data is not a mapping,
\* ValidationError when a key holds a value its field does not accept;
\* a missing key leaves the default, an unknown key is ignored
NewQueryIntent(intent_data) ==
  IF intent_data.t # "obj"
  THEN [raised |-> TRUE, error |-> "argument after ** must be a mapping",
        intent |-> QueryIntent]
  ELSE
    LET d == intent_data.o
        category == Get(d, "category", QueryIntent.category)
        outcome == Get(d, "outcome", QueryIntent.outcome)
        time_range == Get(d, "time_range", QueryIntent.time_range)
        filters == Get(d, "filters", JArr(QueryIntent.filters))
        aggregation == Get(d, "aggregation", QueryIntent.aggregation)
        index_pattern == Get(d, "index_pattern", QueryIntent.index_pattern)
        limit == Get(d, "limit", JNum(QueryIntent.limit))
    IN IF /\ IsOptionalStr(category)
          /\ IsOptionalStr(outcome)
          /\ IsOptionalStr(time_range)
          /\ IsListOfDict(filters)
          /\ IsOptionalDict(aggregation)
          /\ IsOptionalStr(index_pattern)
          /\ IsInt(limit)
       THEN [raised |-> FALSE, error |-> "",
             intent |->
               [category |-> category, outcome |-> outcome,
                time_range |-> time_range,
                filters |-> [i \in 1..Len(filters.a) |-> filters.a[i].o],
                aggregation |-> aggregation, index_pattern |-> index_pattern,
                limit |-> AsInt(limit)]]
       ELSE [raised |-> TRUE, error |-> "validation error for QueryIntent",
             intent |-> QueryIntent]

\* json.loads(intent_json): a document is either malformed text, on which
\* json.loads raises JSONDecodeError, or the text of a JSON value
json_loads(intent_json) ==
  IF intent_json.malformed
  THEN [raised |-> TRUE, error |-> "Expecting value: line 1 column 1 (char 0)",
        value |-> JNull]
  ELSE [raised |-> FALSE, error |-> "", value |-> intent_json.value]

\* the explanation translate_nl_to_esql builds (its step 4)
Explanation(intent) ==
  LET hours == parse_time_range(intent.time_range.s)
  IN "Searching "
     \o (IF PyTruthy(intent.category) THEN intent.category.s ELSE "all")
     \o " events"
     \o (IF PyTruthy(intent.outcome)
         THEN " with " \o intent.outcome.s \o " outcome" ELSE "")
     \o (IF ~PyTruthy(intent.time_range) THEN ""
         ELSE IF hours < 24
         THEN " from the last " \o IntToStr(hours) \o " hours"
         ELSE " from the last " \o IntToStr(hours \div 24) \o " days")
     \o (IF PyTruthy(intent.aggregation) THEN " grouped by user" ELSE "")

(***************************************************************************)
(* The tools.  Each operator gives what one call does: the intent it       *)
(* builds, whether and with what result it ran the validator and the       *)
(* generator, and the envelope it hands to json.dumps.                     *)
(***************************************************************************)
ValidatorNotRun == [ran |-> FALSE, is_valid |-> FALSE, errors |-> <<>>]

GeneratorNotRun == [ran |-> FALSE, raised |-> FALSE, query |-> ""]

Validated(v) == [ran |-> TRUE, is_valid |-> v.is_valid, errors |-> v.errors]

Generated(g) == [ran |-> TRUE, raised |-> g.raised, query |-> g.query]

\* the message of the TypeError ', '.join raises inside generate_esql
JoinError == "can only join an iterable of str"

\* nl_to_esql_plan
nl_to_esql_plan(params) ==
  LET intent_ == parse(params.query)
      v == validate_query_intent(intent_)
      d == asdict(intent_)
  IN [intent |-> intent_,
      validation |-> Validated(v),
      generation |-> GeneratorNotRun,
      response |->
        IF ~v.is_valid
        THEN [success |-> FALSE, errors |-> v.errors, intent |-> JNull]
        ELSE IF d.raised
        THEN [success |-> FALSE, errors |-> <<d.error>>, intent |-> JNull]
        ELSE [success |-> TRUE, errors |-> <<>>, intent |-> JObj(d.value),
              original_query |-> params.query]]

\* translate_nl_to_esql
translate_nl_to_esql(params) ==
  LET intent_ == parse(params.query)
      v == validate_query_intent(intent_)
      g == generate_esql(intent_)
      d == asdict(intent_)
      Failure(e) == [success |-> FALSE, error |-> JStr(e), query |-> JNull,
                     explanation |-> JNull]
  IN [intent |-> intent_,
      validation |-> Validated(v),
      generation |-> IF v.is_valid THEN Generated(g) ELSE GeneratorNotRun,
      explanation |-> IF v.is_valid /\ ~g.raised THEN Explanation(intent_)
                      ELSE "",
      response |->
        IF ~v.is_valid
        THEN [success |-> FALSE, errors |-> v.errors, query |-> JNull,
              explanation |-> JNull]
        ELSE IF g.raised THEN Failure(JoinError)
        ELSE IF d.raised THEN Failure(d.error)
        ELSE [success |-> TRUE, query |-> JStr(g.query),
              explanation |-> JStr(Explanation(intent_)),
              intent |-> JObj(d.value), original_query |-> params.query]]

\* generate_esql_query with an except clause that catches only the
\* JSONDecodeError: the other exceptions leave the tool as a fault
generate_esql_query_NarrowExcept(intent_json_) ==
  LET loaded == json_loads(intent_json_)
      built == NewQueryIntent(loaded.value)
      g == generate_esql(built.intent)
      Failure(e) == [success |-> FALSE, error |-> JStr(e), query |-> JNull]
  IN [intent |-> IF loaded.raised THEN QueryIntent ELSE built.intent,
      validation |-> ValidatorNotRun,
      generation |-> IF loaded.raised \/ built.raised
                     THEN GeneratorNotRun ELSE Generated(g),
      response |->
        IF loaded.raised THEN Failure(loaded.error)
        ELSE IF built.raised THEN [fault |-> built.error]
        ELSE IF g.raised THEN [fault |-> JoinError]
        ELSE [success |-> TRUE, query |-> JStr(g.query),
              index_pattern |-> built.intent.index_pattern,
              has_aggregation |-> built.intent.aggregation # JNull,
              has_time_filter |-> built.intent.time_range # JNull]]

\* generate_esql_query
generate_esql_query(intent_json_) ==
  LET loaded == json_loads(intent_json_)
      built == NewQueryIntent(loaded.value)
      g == generate_esql(built.intent)
      Failure(e) == [success |-> FALSE, error |-> JStr(e), query |-> JNull]
  IN [intent |-> IF loaded.raised THEN QueryIntent ELSE built.intent,
      validation |-> ValidatorNotRun,
      generation |-> IF loaded.raised \/ built.raised
                     THEN GeneratorNotRun ELSE Generated(g),
      response |->
        IF loaded.raised THEN Failure(loaded.error)
        ELSE IF built.raised THEN Failure(built.error)
        ELSE IF g.raised THEN Failure(JoinError)
        ELSE [success |-> TRUE, query |-> JStr(g.query),
              index_pattern |-> built.intent.index_pattern,
              has_aggregation |-> built.intent.aggregation # JNull,
              has_time_filter |-> built.intent.time_range # JNull]]

\* ESQLQueryParams.validate_esql: a query that, stripped and in upper case,
\* does not start with FROM is refused (ValueError); the query kept is the
\* stripped one
ESQLQueryParams(value) ==
  [ok |-> StartsWith(upper(strip(value)), "FROM"), query |-> strip(value)]

\* the characters of the class [\w\-\*]
IndexChars == WordChars \cup {"-", "*"}

\* re.search(r'FROM\s+([\w\-\*]+)', query, re.IGNORECASE): the leftmost
\* FROM, in any letter case, that is followed by white space and then by a
\* character of the class; the group is the longest run of the class
SearchIndex(query) ==
  LET u == upper(query)
      Name(i) == RunEnd(query, i + 4, Whitespace) + 1
      Hit(i) == /\ MatchAt(u, i, "FROM")
                /\ Name(i) > i + 4
                /\ RunEnd(query, Name(i), IndexChars) >= Name(i)
  IN IF \E i \in 1..Len(query) : Hit(i)
     THEN LET i == CHOOSE k \in 1..Len(query) :
                     Hit(k) /\ \A j \in 1..(k - 1) : ~Hit(j)
          IN [found |-> TRUE,
              group |-> SubSeq(query, Name(i), RunEnd(query, Name(i), IndexChars))]
     ELSE [found |-> FALSE, group |-> ""]

\* re.search(r'NOW\(\)\s*-\s*(\d+)h', query): NOW(), a minus sign and
\* digits followed by h, with optional white space around the minus sign
SearchTime(query) ==
  LET Minus(i) == RunEnd(query, i + 5, Whitespace) + 1
      Number(i) == RunEnd(query, Minus(i) + 1, Whitespace) + 1
      Hit(i) == /\ MatchAt(query, i, "NOW()")
                /\ MatchAt(query, Minus(i), "-")
                /\ RunEnd(query, Number(i), Digits) >= Number(i)
                /\ MatchAt(query, RunEnd(query, Number(i), Digits) + 1, "h")
  IN IF \E i \in 1..Len(query) : Hit(i)
     THEN LET i == CHOOSE k \in 1..Len(query) :
                     Hit(k) /\ \A j \in 1..(k - 1) : ~Hit(j)
          IN [found |-> TRUE,
              group |-> SubSeq(query, Number(i), RunEnd(query, Number(i), Digits))]
     ELSE [found |-> FALSE, group |-> ""]

\* re.search(r'LIMIT\s+(\d+)', query, re.IGNORECASE)
SearchLimit(query) ==
  LET u == upper(query)
      Number(i) == RunEnd(query, i + 5, Whitespace) + 1
      Hit(i) == /\ MatchAt(u, i, "LIMIT")
                /\ Number(i) > i + 5
                /\ RunEnd(query, Number(i), Digits) >= Number(i)
  IN IF \E i \in 1..Len(query) : Hit(i)
     THEN LET i == CHOOSE k \in 1..Len(query) :
                     Hit(k) /\ \A j \in 1..(k - 1) : ~Hit(j)
          IN [found |-> TRUE,
              group |-> SubSeq(query, Number(i), RunEnd(query, Number(i), Digits))]
     ELSE [found |-> FALSE, group |-> ""]

\* SCHEMAS with a fourth key, the wildcard source of generate_esql
SCHEMAS_WithWildcard ==
  <<"logs-auth-*", "logs-endpoint-*", "logs-network-*", "logs-*">>

\* SCHEMAS: its keys, in the order of the dict
SCHEMAS == <<"logs-auth-*", "logs-endpoint-*", "logs-network-*">>

\* the class ValidationPolicy
ValidationPolicy ==
  [ALLOWED_INDEXES |-> SCHEMAS,
   MAX_TIME_RANGE_HOURS |-> MAX_TIME_RANGE_HOURS,
   MAX_LIMIT |-> MAX_LIMIT,
   FORBIDDEN_OPERATIONS |-> <<"JOIN", "ENRICH">>,
   ALLOWED_PROTOCOLS |-> <<"ssh", "rdp", "http", "https", "ftp", "smb">>]

\* the loop over FORBIDDEN_OPERATIONS of validate_esql_query: the errors it
\* appends
RECURSIVE ForbiddenErrors(_, _)
ForbiddenErrors(query_upper, ops) ==
  IF Len(ops) = 0 THEN <<>>
  ELSE (IF Contains(query_upper, Head(ops))
        THEN <<"Operation '" \o Head(ops) \o "' is not allowed">>
        ELSE <<>>)
         \o ForbiddenErrors(query_upper, Tail(ops))

\* validate_esql_query counting a warning as a reason to reject
validate_esql_query_WarningsBlock(params) ==
  LET query_ == params.query
      index_match == SearchIndex(query_)
      query_upper == upper(query_)
      time_match == SearchTime(query_)
      limit_match == SearchLimit(query_)
      hours_ == DigitsToNat(time_match.group, 0)
      limit == DigitsToNat(limit_match.group, 0)
      errors ==
        (IF ~index_match.found THEN <<"No FROM clause found">>
         ELSE IF ~InSeq(index_match.group, ValidationPolicy.ALLOWED_INDEXES)
         THEN <<"Index '" \o index_match.group \o "' not in allowed list">>
         ELSE <<>>)
        \o ForbiddenErrors(query_upper, ValidationPolicy.FORBIDDEN_OPERATIONS)
        \o (IF time_match.found /\ hours_ > ValidationPolicy.MAX_TIME_RANGE_HOURS
            THEN <<"Time range " \o IntToStr(hours_) \o "h exceeds maximum">>
            ELSE <<>>)
        \o (IF limit_match.found /\ limit > ValidationPolicy.MAX_LIMIT
            THEN <<"LIMIT " \o IntToStr(limit) \o " exceeds maximum "
                     \o IntToStr(ValidationPolicy.MAX_LIMIT)>>
            ELSE <<>>)
      warnings ==
        IF ~time_match.found /\ ~Contains(query_upper, "STATS")
        THEN <<"No time filter detected">>
        ELSE <<>>
  IN [success |-> Len(errors) = 0 /\ Len(warnings) = 0,
      valid |-> Len(errors) = 0 /\ Len(warnings) = 0,
      errors |-> errors,
      warnings |-> warnings,
      error_count |-> Len(errors),
      warning_count |-> Len(warnings)]

\* validate_esql_query: the envelope it hands to json.dumps
validate_esql_query(params) ==
  LET query_ == params.query
      index_match == SearchIndex(query_)
      query_upper == upper(query_)
      time_match == SearchTime(query_)
      limit_match == SearchLimit(query_)
      hours_ == DigitsToNat(time_match.group, 0)
      limit == DigitsToNat(limit_match.group, 0)
      errors ==
        (IF ~index_match.found THEN <<"No FROM clause found">>
         ELSE IF ~InSeq(index_match.group, ValidationPolicy.ALLOWED_INDEXES)
         THEN <<"Index '" \o index_match.group \o "' not in allowed list">>
         ELSE <<>>)
        \o ForbiddenErrors(query_upper, ValidationPolicy.FORBIDDEN_OPERATIONS)
        \o (IF time_match.found /\ hours_ > ValidationPolicy.MAX_TIME_RANGE_HOURS
            THEN <<"Time range " \o IntToStr(hours_) \o "h exceeds maximum">>
            ELSE <<>>)
        \o (IF limit_match.found /\ limit > ValidationPolicy.MAX_LIMIT
            THEN <<"LIMIT " \o IntToStr(limit) \o " exceeds maximum "
                     \o IntToStr(ValidationPolicy.MAX_LIMIT)>>
            ELSE <<>>)
      warnings ==
        IF ~time_match.found /\ ~Contains(query_upper, "STATS")
        THEN <<"No time filter detected">>
        ELSE <<>>
  IN [success |-> Len(errors) = 0,
      valid |-> Len(errors) = 0,
      errors |-> errors,
      warnings |-> warnings,
      error_count |-> Len(errors),
      warning_count |-> Len(warnings)]

(***************************************************************************)
(* The inputs the model draws from.                                        *)
(***************************************************************************)
\* all sequences over S of length lo..hi
SeqsOf(S, lo, hi) == UNION {[1..n -> S] : n \in lo..hi}

\* the numbers the time phrases of the input texts name, with their values
NumeralValue ==
  [n \in {"0", "007", "2", "6", "7", "12", "24", "30", "36", "168",
          "169"} |->
     CASE n = "0" -> 0 [] n = "007" -> 7 [] n = "2" -> 2 [] n = "6" -> 6
       [] n = "7" -> 7 [] n = "12" -> 12 [] n = "24" -> 24 [] n = "30" -> 30
       [] n = "36" -> 36
       [] n = "168" -> 168 [] n = "169" -> 169]

HourNumerals == {"0", "007", "168", "169"}

PastNumerals == {"2", "36", "169"}

DayNumerals == {"7", "30"}

\* the time phrases of the input texts
TimePhrases ==
  {"last " \o n \o " hours" : n \in HourNumerals}
    \cup {"past " \o n \o " hour" : n \in PastNumerals}
    \cup {"Last " \o n \o " days" : n \in DayNumerals}
    \cup {"last day", "last hour", "Today"}

\* the other phrases of the input texts
OtherPhrases ==
  {"Show", "risky logins", "Authentication successes", "failed SSH",
   "from China", "spawned by cmd process", "network file"}

\* the phrases of the input texts that ask for an aggregation
AggregationPhrases == {"by user"}

\* the texts test_nl_parsing gives to NLParser.parse
TestTexts ==
  {"Show failed SSH logins from China in the last 6 hours",
   "Processes spawned by powershell in the last 2 hours",
   "Authentication successes from the last 24 hours",
   "Failed authentication attempts by user in the last 12 hours"}

\* phrases that each name one category: authentication, process, network, file
CategoryPhrases == {"logins", "spawned", "traffic", "deleted files"}

\* phrases that each match one outcome pattern
OutcomePhrases == {"successful", "failed", "blocked", "allowed"}

\* phrases that name a country, a protocol or a parent process
FilterPhrases ==
  {"China", "from russia", "ssh", "over rdp", "via HTTPS", "ftp",
   "spawned by cmd", "logins"}

\* the texts made of up to MaxPhrases phrases of one vocabulary
TextsOver(phrases) ==
  {join(ps, " ") : ps \in SeqsOf(phrases, 0, MaxPhrases)}

\* the input texts: up to MaxPhrases phrases separated by spaces, each
\* category phrase with a time phrase, and the texts of the tests
Texts ==
  TextsOver(TimePhrases \cup OtherPhrases \cup AggregationPhrases)
    \cup TextsOver(CategoryPhrases)
    \cup TextsOver(OutcomePhrases)
    \cup TextsOver(FilterPhrases)
    \cup {c \o " today" : c \in CategoryPhrases}
    \cup TestTexts

\* the '_'-separated tokens of the programmatic time_range strings
Parts == {"", "last", "hours", "24", "-5", "169", " 7"}

\* the programmatic time_range strings: 1..MaxParts tokens joined by '_'
TimeRanges == {join(ps, "_") : ps \in SeqsOf(Parts, 1, MaxParts)}

\* the largest N of the canonical strings last_<N>_hours given to
\* parse_time_range
MaxHours == 200

\* the aggregation NLParser.parse produces
StatsByUser ==
  JObj([type |-> JStr("stats"), function |-> JStr("count()"),
        group_by |-> JArr(<<JStr("user.name")>>)])

\* the aggregations of the programmatic intents: none, an empty dict, the
\* parser's, one without group_by, one of another type, and one whose
\* group_by is not a list
Aggregations ==
  {JNull, JObj(<<>>), StatsByUser, JObj([type |-> JStr("stats")]),
   JObj([type |-> JStr("top"), function |-> JStr("count()")]),
   JObj([type |-> JStr("stats"), group_by |-> JNum(5)])}

\* the filter lists of the programmatic intents: empty, one filter, two
\* filters, and a filter without operator followed by one without value
FilterLists ==
  {<<>>,
   <<Filter("source.geo.country_name", "China")>>,
   <<Filter("source.geo.country_name", "China"),
     Filter("network.protocol", "ssh")>>,
   <<[field |-> JStr("user.name"), value |-> JStr("root")],
     [field |-> JStr("host.name"), operator |-> JStr("!=")]>>}

\* the limits of the programmatic intents
Limits == {-1, 0, DefaultLimit, MAX_LIMIT, MAX_LIMIT + 1}

\* programmatic intents that vary the time_range string
TimeRangeIntents ==
  {[QueryIntent EXCEPT !.time_range = JStr(tr), !.aggregation = a] :
     tr \in TimeRanges, a \in {JNull, StatsByUser}}

\* programmatic intents that vary the other fields
FieldIntents ==
  [category : {JNull, JStr("authentication")},
   outcome : {JNull, JStr("failure")},
   time_range : {JNull, JStr(""), JStr("last_24_hours"), JStr("last_169_hours")},
   filters : FilterLists,
   aggregation : Aggregations,
   index_pattern : {JNull, JStr("logs-auth-*")},
   limit : Limits]

\* the intents given to validate_query_intent and generate_esql directly
Intents == TimeRangeIntents \cup FieldIntents

\* json.dumps of an intent: the JSON object a caller sends for it
IntentObject(i) ==
  JObj([category |-> i.category, outcome |-> i.outcome,
        time_range |-> i.time_range,
        filters |-> JArr([k \in 1..Len(i.filters) |-> JObj(i.filters[k])]),
        aggregation |-> i.aggregation, index_pattern |-> i.index_pattern,
        limit |-> JNum(i.limit)])

\* the keys of a QueryIntent
IntentKeys ==
  {"category", "outcome", "time_range", "filters", "aggregation",
   "index_pattern", "limit"}

\* JSON values of every type, to put where a field expects another type
JsonValues ==
  {JNull, JBool(TRUE), JNum(5), JStr("x"), JArr(<<>>), JArr(<<JNum(1)>>),
   JObj(<<>>)}

\* the object of a valid bounded intent, the base of the damaged objects
BaseObject == IntentObject([QueryIntent EXCEPT !.time_range = JStr("last_24_hours")])

\* BaseObject without key k
Without(k) == JObj([x \in IntentKeys \ {k} |-> BaseObject.o[x]])

\* BaseObject with key k set to v
With(k, v) == JObj([x \in IntentKeys |-> IF x = k THEN v ELSE BaseObject.o[x]])

\* the documents given to generate_esql_query: malformed text, JSON values
\* that are no object, the empty object, objects of intents, and objects
\* with a key missing or set to a value of any type
Documents ==
  {[malformed |-> TRUE, value |-> JNull]}
    \cup {[malformed |-> FALSE, value |-> v] :
            v \in JsonValues
                    \cup {IntentObject(i) : i \in Intents}
                    \cup {Without(k) : k \in IntentKeys}
                    \cup {With(k, v) : k \in IntentKeys \ {"limit"}, v \in JsonValues}
                    \cup {With("limit", v) : v \in {w \in JsonValues : w.t # "bool"}}}

\* the number of requests in flight at a time
MaxRequests == 2

\* the requests in flight
Requests == 1..MaxRequests

\* the address of the list object of the class body of QueryIntent
ClassDefault == 0

\* the addresses of the list objects: the class default and one list per
\* request in flight
Addresses == {ClassDefault} \cup Requests

\* the texts of the requests in flight
RequestTexts ==
  {"China ssh", "from russia spawned by cmd", "failed logins by user last day"}

\* the result of a request on whose intent nothing has been called
NoResult == [ran |-> FALSE]

\* the object of a request that holds no intent
NoObject == [QueryIntent EXCEPT !.filters = ClassDefault]

\* the number of clauses that follow the source of a raw query
MaxClauses == 2

\* how the raw queries given to validate_esql_query begin: the three
\* allowed sources, in other letter case and spacing too; the wildcard
\* source of generate_esql; a source that is not allowed; a list of
\* sources; FROM without a source; no FROM at all
RawSources ==
  {"FROM logs-auth-*", "from logs-endpoint-*", " FROM   logs-network-*",
   "FROM logs-*", "FROM secrets", "FROM logs-auth-*,secrets",
   "FROM", "FROMAGE", "SHOW INFO", "ROW x = 1"}

\* the clauses that follow the source
RawClauses ==
  {"WHERE @timestamp >= NOW() - 24h", "WHERE @timestamp >= NOW()-169h",
   "LOOKUP JOIN users ON user.name", "enrich geo", "STATS count() BY user.name",
   "LIMIT 1000", "limit 1001"}

\* the raw queries: a beginning and up to MaxClauses clauses, each after a
\* pipe; and the empty string
RawQueries ==
  {join(<<b>> \o cs, " | ") :
     b \in RawSources, cs \in SeqsOf(RawClauses, 0, MaxClauses)}
    \cup {""}

(***************************************************************************)
(* The state: the last call served and what it did; and, for the requests  *)
(* that run parse statement by statement, the objects they work on.        *)
(***************************************************************************)
VARIABLES
  tool,         \* the function or tool being served ("none": the server is idle)
  query,        \* the text given to an NL tool
  intent_json,  \* the document given to generate_esql_query
  time_range,   \* the string given to parse_time_range
  intent,       \* the QueryIntent the call was given or built
  validation,   \* whether validate_query_intent ran, and its result
  generation,   \* whether generate_esql ran, and its result
  hours,        \* what parse_time_range returned
  explanation,  \* the sentence translate_nl_to_esql built in its step 4
  response,     \* the envelope the tool returned (<<>>: none)
  pc,           \* per request in flight: the statement of parse it is at
  rtext,        \* per request in flight: the text it was given
  obj,          \* per request in flight: its QueryIntent object, whose
                \* attribute filters is the address of a list object
  lists,        \* the list objects, by address; address ClassDefault is the
                \* list of the class body  filters: List[Dict] = []
  result,       \* per request: what the last call on its intent returned
  policy,       \* the attributes of the class ValidationPolicy
  max_retries,  \* scim.py: MAX_RETRIES, read from the environment
  rate_limit_delay,  \* scim.py: RATE_LIMIT_DELAY, in tenths of a second
  rpc,          \* the statement make_request_with_retry is at
  attempt,      \* its loop variable
  requests_made,  \* the outcome of each requests.request of the call
  sleeps,       \* the time.sleep calls of the call, in order
  returned,     \* what the call returned
  state_file,   \* scim.py: the file STATE_FILE
  aws,          \* the user names AWS Identity Center holds
  spc,          \* the statement the sync script is at
  previous_state,     \* the ids under 'users' of what load_state returned
  zitadel_users,      \* the ids fetch_zitadel_users returned
  current_aws_users,  \* the user names fetch_aws_users returned
  delete_requests,    \* the users the run sent a DELETE for
  save_outcome  \* what save_state logged in this run

\* the state of the calls served one at a time
toolvars ==
  <<tool, query, intent_json, time_range, intent, validation, generation,
    hours, explanation, response>>

\* the state of the requests in flight and of the objects they work on
objvars == <<pc, rtext, obj, lists, result, policy>>

\* the state of a call of make_request_with_retry of scim.py
retryvars ==
  <<max_retries, rate_limit_delay, rpc, attempt, requests_made, sleeps,
    returned>>

\* the state of a run of the sync script scim.py
syncvars ==
  <<state_file, aws, spc, previous_state, zitadel_users, current_aws_users,
    delete_requests, save_outcome>>

\* the state of scim.py
scimvars == <<retryvars, syncvars>>

\* there is no state file, or json.load refuses what it holds
NoStateFile == [readable |-> FALSE, users |-> {}]

vars == <<toolvars, objvars, scimvars>>

\* make_request_with_retry has not returned yet
Pending == [kind |-> "pending", status_code |-> 0]

NoDocument == [malformed |-> FALSE, value |-> JNull]

NoResponse == <<>>

Init ==
  /\ tool = "none"
  /\ query = ""
  /\ intent_json = NoDocument
  /\ time_range = ""
  /\ intent = QueryIntent
  /\ validation = ValidatorNotRun
  /\ generation = GeneratorNotRun
  /\ hours = 0
  /\ explanation = ""
  /\ response = NoResponse
  /\ pc = [r \in Requests |-> "idle"]
  /\ rtext = [r \in Requests |-> ""]
  /\ obj = [r \in Requests |-> NoObject]
  /\ lists = [a \in Addresses |-> <<>>]
  /\ result = [r \in Requests |-> NoResult]
  /\ policy = ValidationPolicy
  /\ max_retries = 0
  /\ rate_limit_delay = 0
  /\ rpc = "unloaded"
  /\ attempt = 0
  /\ requests_made = <<>>
  /\ sleeps = <<>>
  /\ returned = Pending
  /\ state_file = NoStateFile
  /\ aws = {}
  /\ spc = "load_state"
  /\ previous_state = {}
  /\ zitadel_users = {}
  /\ current_aws_users = {}
  /\ delete_requests = {}
  /\ save_outcome = "none"

\* what the server keeps of a call that NLQueryParams refused: the body of
\* the tool never ran
Refused ==
  [intent |-> QueryIntent,
   validation |-> ValidatorNotRun,
   generation |-> GeneratorNotRun,
   explanation |-> "",
   response |-> [refused |-> "Query must be at least 3 characters long"]]

\* a client calls the tool nl_to_esql_plan with a text: the parameter model
\* refuses it, or the body runs on the stripped text
Call_nl_to_esql_plan ==
  /\ tool = "none"
  /\ UNCHANGED <<objvars, scimvars>>
  /\ \E text \in Texts :
       \E r \in {IF NLQueryParams(text).ok
                 THEN nl_to_esql_plan(NLQueryParams(text))
                 ELSE Refused} :
          /\ tool' = "nl_to_esql_plan"
          /\ query' = text
          /\ intent_json' = NoDocument
          /\ time_range' = ""
          /\ hours' = 0
          /\ explanation' = ""
          /\ intent' = r.intent
          /\ validation' = r.validation
          /\ generation' = r.generation
          /\ response' = r.response

\* a client calls the tool translate_nl_to_esql with a text: the parameter
\* model refuses it, or the body runs on the stripped text
Call_translate_nl_to_esql ==
  /\ tool = "none"
  /\ UNCHANGED <<objvars, scimvars>>
  /\ \E text \in Texts :
       \E r \in {IF NLQueryParams(text).ok
                 THEN translate_nl_to_esql(NLQueryParams(text))
                 ELSE Refused} :
          /\ tool' = "translate_nl_to_esql"
          /\ query' = text
          /\ intent_json' = NoDocument
          /\ time_range' = ""
          /\ hours' = 0
          /\ explanation' = r.explanation
          /\ intent' = r.intent
          /\ validation' = r.validation
          /\ generation' = r.generation
          /\ response' = r.response

\* a client calls the tool generate_esql_query
Call_generate_esql_query ==
  /\ tool = "none"
  /\ UNCHANGED <<objvars, scimvars>>
  /\ \E doc \in Documents :
       \E r \in {generate_esql_query(doc)} :
          /\ tool' = "generate_esql_query"
          /\ query' = ""
          /\ intent_json' = doc
          /\ time_range' = ""
          /\ hours' = 0
          /\ explanation' = ""
          /\ intent' = r.intent
          /\ validation' = r.validation
          /\ generation' = r.generation
          /\ response' = r.response

\* what the server keeps of a call that ESQLQueryParams refused: the body
\* of the tool never ran
RefusedRaw == [refused |-> "ES|QL query must start with FROM clause"]

\* a client calls the tool validate_esql_query with a raw query: the
\* parameter model refuses it, or the body runs on the stripped query
Call_validate_esql_query ==
  /\ tool = "none"
  /\ UNCHANGED <<objvars, scimvars>>
  /\ \E raw \in RawQueries :
       \E r \in {IF ESQLQueryParams(raw).ok
                 THEN validate_esql_query(ESQLQueryParams(raw))
                 ELSE RefusedRaw} :
          /\ tool' = "validate_esql_query"
          /\ query' = raw
          /\ intent_json' = NoDocument
          /\ time_range' = ""
          /\ hours' = 0
          /\ explanation' = ""
          /\ intent' = QueryIntent
          /\ validation' = ValidatorNotRun
          /\ generation' = GeneratorNotRun
          /\ response' = r

\* a caller (test_mcp.py) calls validate_query_intent on an intent it built
Call_validate_query_intent ==
  /\ tool = "none"
  /\ UNCHANGED <<objvars, scimvars>>
  /\ \E i \in Intents :
       /\ tool' = "validate_query_intent"
       /\ query' = ""
       /\ intent_json' = NoDocument
       /\ time_range' = ""
       /\ hours' = 0
       /\ explanation' = ""
       /\ intent' = i
       /\ validation' = Validated(validate_query_intent(i))
       /\ generation' = GeneratorNotRun
       /\ response' = NoResponse

\* a caller (test_mcp.py) calls generate_esql on an intent it built
Call_generate_esql ==
  /\ tool = "none"
  /\ UNCHANGED <<objvars, scimvars>>
  /\ \E i \in Intents :
       /\ tool' = "generate_esql"
       /\ query' = ""
       /\ intent_json' = NoDocument
       /\ time_range' = ""
       /\ hours' = 0
       /\ explanation' = ""
       /\ intent' = i
       /\ validation' = ValidatorNotRun
       /\ generation' = Generated(generate_esql(i))
       /\ response' = NoResponse

\* the canonical string of N hours, as NLParser.time_patterns builds it
Canonical(n) == "last_" \o IntToStr(n) \o "_hours"

\* parse_time_range is called on a string
Call_parse_time_range ==
  /\ tool = "none"
  /\ UNCHANGED <<objvars, scimvars>>
  /\ \E tr \in TimeRanges \cup {Canonical(n) : n \in 1..MaxHours} :
       /\ tool' = "parse_time_range"
       /\ query' = ""
       /\ intent_json' = NoDocument
       /\ time_range' = tr
       /\ hours' = parse_time_range(tr)
       /\ explanation' = ""
       /\ intent' = QueryIntent
       /\ validation' = ValidatorNotRun
       /\ generation' = GeneratorNotRun
       /\ response' = NoResponse

\* the call returns: its result goes to the caller and the intent is
\* discarded; nothing of the call persists
Return ==
  /\ tool # "none"
  /\ UNCHANGED <<objvars, scimvars>>
  /\ tool' = "none"
  /\ query' = ""
  /\ intent_json' = NoDocument
  /\ time_range' = ""
  /\ intent' = QueryIntent
  /\ validation' = ValidatorNotRun
  /\ generation' = GeneratorNotRun
  /\ hours' = 0
  /\ explanation' = ""
  /\ response' = NoResponse

Next ==
  \/ Call_nl_to_esql_plan
  \/ Call_translate_nl_to_esql
  \/ Call_generate_esql_query
  \/ Call_validate_esql_query
  \/ Call_validate_query_intent
  \/ Call_generate_esql
  \/ Call_parse_time_range
  \/ Return

Spec == Init /\ [][Next]_vars

(***************************************************************************)
(* Properties.                                                             *)
(***************************************************************************)
\* the tools that take a text
NLTools == {"nl_to_esql_plan", "translate_nl_to_esql"}

\* the texts made of phrases that are neither time nor aggregation phrases
PlainTexts == {join(ps, " ") : ps \in SeqsOf(OtherPhrases, 0, MaxPhrases)}

\* C1: validate_query_intent rejects, with the error 'Time range required
\* for safety', every intent whose time_range and aggregation are both unset
\* (or empty); and an NL tool given a text without time phrase and without
\* aggregation phrase rejects it with exactly that error.
C1_TimeRangeRequired ==
  /\ (/\ validation.ran
      /\ intent.time_range \in {JNull, JStr("")}
      /\ intent.aggregation \in {JNull, JObj(<<>>)})
       => /\ ~validation.is_valid
          /\ validation.errors = <<"Time range required for safety">>
  /\ (tool \in NLTools /\ validation.ran /\ query \in PlainTexts)
       => /\ ~validation.is_valid
          /\ response.success = FALSE
          /\ response.errors = <<"Time range required for safety">>

\* C1 witness: 'risky logins' has been rejected by translate_nl_to_esql
C1_Witness ==
  /\ tool = "translate_nl_to_esql"
  /\ query = "Show risky logins"
  /\ intent.time_range = JNull
  /\ intent.aggregation = JNull
  /\ response.success = FALSE
  /\ response.errors = <<"Time range required for safety">>

\* the error validate_query_intent gives for a range of n hours
ExceedsError(n) ==
  "Time range " \o IntToStr(n) \o "h exceeds maximum 168h"

\* C2: for an intent whose time_range decodes to N hours the validator
\* reports the error naming N and the maximum 168 if and only if N > 168;
\* 'last 30 days' is rejected citing 720 and 168, and 168 hours is accepted.
C2_MaxTimeRange ==
  /\ (validation.ran /\ intent.time_range.t = "str" /\ intent.time_range.s # "")
       => LET N == parse_time_range(intent.time_range.s)
          IN /\ InSeq(ExceedsError(N), validation.errors) <=> N > 168
             /\ N <= 168 =>
                  \A k \in 1..Len(validation.errors) :
                    ~Contains(validation.errors[k], "exceeds maximum")
  /\ (tool \in NLTools /\ query = "Last 30 days")
       => validation.errors = <<"Time range 720h exceeds maximum 168h">>
  /\ (tool \in NLTools /\ query = "last 168 hours")
       => validation.is_valid

\* C2 witness: a range of 169 hours has been rejected
C2_Witness ==
  /\ tool = "validate_query_intent"
  /\ intent.time_range = JStr("last_169_hours")
  /\ validation.errors = <<"Time range 169h exceeds maximum 168h">>

\* C3: every intent validate_query_intent accepts has a limit between 0 and
\* ValidationPolicy.MAX_LIMIT.
C3_LimitBounded ==
  (validation.ran /\ validation.is_valid)
    => intent.limit >= 0 /\ intent.limit <= MAX_LIMIT

\* C4: the time_range of every intent, parsed from a text or supplied by a
\* caller, decodes to a strictly positive number of hours.
C4_PositiveHours ==
  intent.time_range.t = "str" => parse_time_range(intent.time_range.s) > 0

\* the MCP tools of the model
Tools == NLTools \cup {"generate_esql_query"}

\* C5: no tool returns a generated query for an intent that
\* validate_query_intent rejects.
C5_GeneratedOnlyIfValid ==
  (/\ tool \in Tools
   /\ "query" \in DOMAIN response
   /\ response.query # JNull)
    => validate_query_intent(intent).is_valid

\* C6: for every text whose parsed intent passes validation the NL tools
\* return success = true.
C6_ValidTextSucceeds ==
  (tool \in NLTools /\ validation.ran /\ validation.is_valid)
    => response.success = TRUE

\* C7: generate_esql_query always returns an envelope; given a document that
\* is not valid JSON, or that decodes to something that is no object, or to
\* an object QueryIntent does not accept, it returns success = false with
\* one error string and a null query, and never runs the generator.
C7_GenerateQueryCatches ==
  /\ tool = "generate_esql_query" => "success" \in DOMAIN response
  /\ (/\ tool = "generate_esql_query"
      /\ \/ intent_json.malformed
         \/ intent_json.value.t # "obj"
         \/ NewQueryIntent(intent_json.value).raised)
       => /\ DOMAIN response = {"success", "error", "query"}
          /\ response.success = FALSE
          /\ response.error.t = "str"
          /\ response.query = JNull
          /\ ~generation.ran

\* C7 witness: a JSON array has been given and refused
C7_Witness ==
  /\ tool = "generate_esql_query"
  /\ ~intent_json.malformed
  /\ intent_json.value = JArr(<<JNum(1)>>)
  /\ response.success = FALSE
  /\ response.query = JNull

\* the hours the time phrases of the lower-cased text q name
TimePhraseHours(q) ==
  {NumeralValue[n] :
     n \in {m \in DOMAIN NumeralValue :
              \/ Contains(q, "last " \o m \o " hour")
              \/ Contains(q, "past " \o m \o " hour")}}
    \cup {24 * NumeralValue[n] :
            n \in {m \in DOMAIN NumeralValue : Contains(q, "last " \o m \o " day")}}
    \cup (IF Contains(q, "last day") \/ Contains(q, "today") THEN {24} ELSE {})
    \cup (IF Contains(q, "last hour") THEN {1} ELSE {})

\* C9: parse_time_range returns N on the canonical string last_<N>_hours,
\* for every N of 1..MaxHours; and the time_range NLParser.parse emits
\* decodes to the hours of a time phrase of the text (N for 'last/past N
\* hours', N*24 for 'last N days').
C9_RoundTrip ==
  /\ \A n \in 1..MaxHours :
       (tool = "parse_time_range" /\ time_range = Canonical(n)) => hours = n
  /\ (tool \in NLTools /\ validation.ran /\ intent.time_range # JNull)
       => /\ intent.time_range.t = "str"
          /\ parse_time_range(intent.time_range.s)
               \in TimePhraseHours(lower(query))

\* C9 witness: the canonical string of the largest N has been decoded
C9_Witness ==
  /\ tool = "parse_time_range"
  /\ time_range = Canonical(MaxHours)
  /\ hours = MaxHours

\* the tokens of Parts that int() refuses
NonIntegerParts == {"", "last", "hours"}

\* the non-empty time_range strings whose second token is missing or is
\* not an integer
MalformedTimeRanges ==
  {join(ps, "_") :
     ps \in {qs \in SeqsOf(Parts, 1, MaxParts) :
               Len(qs) = 1 \/ qs[2] \in NonIntegerParts}} \ {""}

\* C10: on a malformed time_range parse_time_range returns 24, the validator
\* accepts the intent without any error, and the generator emits the
\* 24-hour lower bound.
C10_MalformedDefaults ==
  /\ (tool = "parse_time_range" /\ time_range \in MalformedTimeRanges)
       => hours = 24
  /\ (/\ intent.time_range.t = "str"
      /\ intent.time_range.s \in MalformedTimeRanges)
       => /\ validation.ran
               => validation.is_valid /\ validation.errors = <<>>
          /\ generation.ran
               => /\ ~generation.raised
                  /\ Contains(generation.query, "@timestamp >= NOW() - 24h ")

\* C10 witness: last_hours_24 has been accepted and rendered as 24 hours
C10_Witness ==
  /\ tool = "generate_esql_query"
  /\ intent.time_range = JStr("last_hours_24")
  /\ validate_query_intent(intent).is_valid
  /\ generation.query = "FROM logs-* | WHERE @timestamp >= NOW() - 24h | LIMIT 100"

\* the position of the first occurrence of lit in s, 0 when there is none
IndexOf(s, lit) ==
  IF Contains(s, lit)
  THEN CHOOSE i \in 1..(Len(s) + 1) :
         MatchAt(s, i, lit) /\ \A j \in 1..(i - 1) : ~MatchAt(s, j, lit)
  ELSE 0

\* the number of positions of s at which lit occurs
Count(s, lit) == Cardinality({i \in 1..Len(s) : MatchAt(s, i, lit)})

\* s.endswith(lit)
EndsWith(s, lit) == MatchAt(s, Len(s) - Len(lit) + 1, lit)

RECURSIVE SplitOn(_, _)
\* the pieces of s between the occurrences of the separator sep
SplitOn(s, sep) ==
  LET i == IndexOf(s, sep)
  IN IF i = 0 THEN <<s>>
     ELSE <<SubSeq(s, 1, i - 1)>>
            \o SplitOn(SubSeq(s, i + Len(sep), Len(s)), sep)

\* the conditions of the WHERE clause of the query q, in the order they are
\* written: the text between '| WHERE ' and the next clause, cut at ' AND '
WhereConditions(q) ==
  LET w == IndexOf(q, "| WHERE ")
      rest == SubSeq(q, w + 8, Len(q))
  IN IF w = 0 THEN <<>>
     ELSE SplitOn(SubSeq(rest, 1, IndexOf(rest, " | ") - 1), " AND ")

\* a filter that has a field and a value
Applies(filter_item) ==
  /\ PyTruthy(Get(filter_item, "field", JNull))
  /\ PyTruthy(Get(filter_item, "value", JNull))

RECURSIVE AppliedFields(_)
\* the fields of the filters that apply, in the order the filters are stored
AppliedFields(filters) ==
  IF Len(filters) = 0 THEN <<>>
  ELSE (IF Applies(Head(filters)) THEN <<PyStr(Head(filters).field)>> ELSE <<>>)
         \o AppliedFields(Tail(filters))

\* what each condition of the query of intent i starts with, by the order
\* time, category, outcome, filters as stored
ConditionOrder(i) ==
  (IF PyTruthy(i.time_range) THEN <<"@timestamp >= NOW() - ">> ELSE <<>>)
    \o (IF PyTruthy(i.category) THEN <<"event.category == ">> ELSE <<>>)
    \o (IF PyTruthy(i.outcome) THEN <<"event.outcome == ">> ELSE <<>>)
    \o [k \in 1..Len(AppliedFields(i.filters)) |->
          AppliedFields(i.filters)[k] \o " "]

\* the intent of test_esql_generation (test case 1) with the time range of
\* the model, grouped by user
FailedSshFromChina ==
  [category |-> JStr("authentication"), outcome |-> JStr("failure"),
   time_range |-> JStr("last_24_hours"),
   filters |-> <<Filter("source.geo.country_name", "China"),
                 Filter("network.protocol", "ssh")>>,
   aggregation |-> StatsByUser, index_pattern |-> JStr("logs-auth-*"),
   limit |-> DefaultLimit]

\* C11: every query generate_esql returns has its clauses in the order FROM,
\* WHERE, STATS, LIMIT; the conditions of its WHERE clause, cut at ' AND ',
\* are the time bound, the category equality, the outcome equality and the
\* filters in the order they are stored; a STATS clause is there only if the
\* aggregation is set; and the text 'Show failed SSH logins from China in
\* the last 6 hours' gives time, category, outcome, country, protocol.
C11_ClauseOrder ==
  /\ (generation.ran /\ ~generation.raised)
       => LET q == generation.query
              w == IndexOf(q, "| WHERE ")
              s == IndexOf(q, "| STATS ")
              l == IndexOf(q, "| LIMIT ")
              conds == WhereConditions(q)
              order == ConditionOrder(intent)
          IN /\ IndexOf(q, "FROM ") = 1
             /\ l > 1
             /\ w > 0 => w > 1 /\ w < l
             /\ s > 0 => s > w /\ s < l
             /\ s > 0 => PyTruthy(intent.aggregation)
             /\ Len(conds) = Len(order)
             /\ \A k \in 1..Len(conds) : StartsWith(conds[k], order[k])
  /\ (/\ tool = "translate_nl_to_esql"
      /\ query = "Show failed SSH logins from China in the last 6 hours")
       => /\ generation.ran
          /\ WhereConditions(generation.query)
               = <<"@timestamp >= NOW() - 6h",
                   "event.category == \"authentication\"",
                   "event.outcome == \"failure\"",
                   "source.geo.country_name == \"China\"",
                   "network.protocol == \"ssh\"">>

\* C11 witness: generate_esql has rendered an intent with every kind of
\* condition and an aggregation
C11_Witness ==
  /\ tool = "generate_esql"
  /\ intent = FailedSshFromChina
  /\ generation.query
       = "FROM logs-auth-* | WHERE @timestamp >= NOW() - 24h"
           \o " AND event.category == \"authentication\""
           \o " AND event.outcome == \"failure\""
           \o " AND source.geo.country_name == \"China\""
           \o " AND network.protocol == \"ssh\""
           \o " | STATS count() BY user.name | LIMIT 100"

\* C12: every query generate_esql returns starts with 'FROM ' and the index
\* pattern of the intent ('logs-*' when the intent has none), holds one FROM
\* only, ends with '| LIMIT ' and the limit of the intent, holds one LIMIT
\* only, and has a WHERE clause exactly when the intent has a time range, a
\* category, an outcome, or a filter with a field and a value.
C12_SourceAndLimit ==
  (generation.ran /\ ~generation.raised)
    => LET q == generation.query
           source == IF intent.index_pattern \in {JNull, JStr("")}
                     THEN "logs-*" ELSE intent.index_pattern.s
       IN /\ StartsWith(q, "FROM " \o source \o " | ")
          /\ Count(q, "FROM ") = 1
          /\ EndsWith(q, " | LIMIT " \o IntToStr(intent.limit))
          /\ Count(q, "| LIMIT ") = 1
          /\ Count(q, "| WHERE ") <= 1
          /\ Contains(q, "| WHERE ")
               <=> \/ intent.time_range \notin {JNull, JStr("")}
                   \/ intent.category \notin {JNull, JStr("")}
                   \/ intent.outcome \notin {JNull, JStr("")}
                   \/ \E k \in 1..Len(intent.filters) : Applies(intent.filters[k])

\* C12 witness: generate_esql_query has rendered the empty object: the
\* wildcard source, no WHERE clause, the default limit
C12_Witness ==
  /\ tool = "generate_esql_query"
  /\ intent_json.value = JObj(<<>>)
  /\ ~intent_json.malformed
  /\ intent = QueryIntent
  /\ generation.query = "FROM logs-* | LIMIT 100"

\* the lower-cased text an NL tool gave to the parser
ParsedText == lower(strip(query))

\* some word of the set words occurs in the text q
HasWord(q, words) == \E w \in words : Contains(q, w)

\* C13: the category of a parsed text is authentication when the text holds
\* one of auth, login, logon, sign; else process when it holds one of
\* process, spawn, exec, run; else network when it holds one of network,
\* connection, traffic; else file when it holds one of file, create, delete,
\* modify; else unset, wherever in the text the words stand; index_pattern
\* is logs-auth-*, logs-endpoint-*, logs-network-* for the first three
\* categories and unset for file and for no category.
C13_CategoryOrder ==
  (tool \in NLTools /\ validation.ran)
    => LET q == ParsedText
           auth == HasWord(q, {"auth", "login", "logon", "sign"})
           process == HasWord(q, {"process", "spawn", "exec", "run"})
           network == HasWord(q, {"network", "connection", "traffic"})
           file == HasWord(q, {"file", "create", "delete", "modify"})
       IN /\ intent.category
               = (IF auth THEN JStr("authentication")
                  ELSE IF process THEN JStr("process")
                  ELSE IF network THEN JStr("network")
                  ELSE IF file THEN JStr("file")
                  ELSE JNull)
          /\ intent.index_pattern
               = (CASE intent.category = JStr("authentication") -> JStr("logs-auth-*")
                    [] intent.category = JStr("process") -> JStr("logs-endpoint-*")
                    [] intent.category = JStr("network") -> JStr("logs-network-*")
                    [] OTHER -> JNull)

\* C13 witness: a text that names a process before it names logins has been
\* parsed as authentication
C13_Witness ==
  /\ tool = "nl_to_esql_plan"
  /\ query = "spawned logins"
  /\ intent.category = JStr("authentication")
  /\ intent.index_pattern = JStr("logs-auth-*")

\* the numerals m for which the text q holds pre, m and post in a row
NumeralsIn(q, pre, post) ==
  {m \in DOMAIN NumeralValue : Contains(q, pre \o m \o post)}

\* the time_range strings that encode n hours: last_<digits>_hours where the
\* digits read as n
Encodes(tr, n) ==
  /\ tr.t = "str"
  /\ StartsWith(tr.s, "last_")
  /\ EndsWith(tr.s, "_hours")
  /\ Len(tr.s) > 11
  /\ AllDigits(SubSeq(tr.s, 6, Len(tr.s) - 6))
  /\ DigitsToNat(SubSeq(tr.s, 6, Len(tr.s) - 6), 0) = n

\* C14: the time_range of a parsed text comes from the first pattern that
\* matches, in the order 'last N hours', 'past N hours', 'last N days'
\* (N * 24 hours), 'last day' (24), 'last hour' (1), 'today' (24), whatever
\* the order of the phrases in the text; it is encoded as last_<hours>_hours;
\* a text that matches no pattern has no time_range.
C14_TimePatternOrder ==
  (tool \in NLTools /\ validation.ran)
    => LET q == ParsedText
           lastHours == NumeralsIn(q, "last ", " hour")
           pastHours == NumeralsIn(q, "past ", " hour")
           lastDays == NumeralsIn(q, "last ", " day")
           tr == intent.time_range
       IN IF lastHours # {}
          THEN \E m \in lastHours : Encodes(tr, NumeralValue[m])
          ELSE IF pastHours # {}
          THEN \E m \in pastHours : Encodes(tr, NumeralValue[m])
          ELSE IF lastDays # {}
          THEN \E m \in lastDays : tr = JStr(Canonical(24 * NumeralValue[m]))
          ELSE IF Contains(q, "last day") THEN tr = JStr("last_24_hours")
          ELSE IF Contains(q, "last hour") THEN tr = JStr("last_1_hours")
          ELSE IF Contains(q, "today") THEN tr = JStr("last_24_hours")
          ELSE tr = JNull

\* C14 witness: a text with 'last day' before 'last 0 hours' has taken the
\* hours of the pattern 'last N hours'
C14_Witness ==
  /\ tool = "translate_nl_to_esql"
  /\ query = "last day last 0 hours"
  /\ intent.time_range = JStr("last_0_hours")

FieldRank(field) ==
  CASE field = JStr("source.geo.country_name") -> 1
    [] field = JStr("network.protocol") -> 2
    [] field = JStr("process.parent.name") -> 3
    [] OTHER -> 0

\* C16: the filters of a parsed text hold no two entries with the same field
\* and operator; they are a geography filter, a protocol filter and a
\* process-parent filter, each at most once and in that order; the parent
\* filter is there only when the category is process; and 'Show failed SSH
\* logins from China in the last 6 hours' gives country China then protocol
\* ssh.
C16_FiltersUnique ==
  /\ (tool \in NLTools /\ validation.ran)
       => LET f == intent.filters
          IN /\ \A i, j \in 1..Len(f) :
                  i < j => <<f[i].field, f[i].operator>>
                             # <<f[j].field, f[j].operator>>
             /\ \A i \in 1..Len(f) : FieldRank(f[i].field) > 0
             /\ \A i, j \in 1..Len(f) :
                  i < j => FieldRank(f[i].field) < FieldRank(f[j].field)
             /\ \A i \in 1..Len(f) :
                  f[i].field = JStr("process.parent.name")
                    => intent.category = JStr("process")
  /\ (/\ tool \in NLTools
      /\ query = "Show failed SSH logins from China in the last 6 hours")
       => intent.filters
            = <<[field |-> JStr("source.geo.country_name"),
                 operator |-> JStr("=="), value |-> JStr("China")],
                [field |-> JStr("network.protocol"),
                 operator |-> JStr("=="), value |-> JStr("ssh")]>>

\* C16 witness: a text that names two countries has been parsed with one
\* geography filter
C16_Witness ==
  /\ tool = "nl_to_esql_plan"
  /\ query = "from russia China"
  /\ validation.ran
  /\ intent.filters
       = <<[field |-> JStr("source.geo.country_name"),
            operator |-> JStr("=="), value |-> JStr("China")]>>

(***************************************************************************)
(* Requests in flight.  SpecRequests runs NLParser.parse statement by      *)
(* statement for up to MaxRequests requests at a time, on objects: the     *)
(* attribute filters of a QueryIntent is the address of a list, and the    *)
(* appends of parse go to the list at that address.  Once parse has        *)
(* returned, validate_query_intent and generate_esql are called on the     *)
(* intent, in any order and any number of times.                           *)
(***************************************************************************)
\* QueryIntent() giving every instance the list of the class body itself,
\* as a plain class attribute would
NewFilters_ClassAttribute(r) == ClassDefault

\* the address of the list QueryIntent() gives the attribute filters of the
\* instance built for request r: pydantic copies a mutable default for
\* every instance, so the list is a new one
NewFilters(r) == r

\* the text parse works on
query_lower(r) == lower(rtext[r])

\* the QueryIntent of request r as a value: its attributes, with the
\* content of its list of filters
IntentOf(r) == [obj[r] EXCEPT !.filters = lists[obj[r].filters]]

\* parse is entered:  query_lower = query.lower(); intent = QueryIntent()
Begin(r) ==
  /\ pc[r] = "idle"
  /\ \E t \in RequestTexts : rtext' = [rtext EXCEPT ![r] = t]
  /\ obj' = [obj EXCEPT ![r] = [QueryIntent EXCEPT !.filters = NewFilters(r)]]
  /\ lists' = [lists EXCEPT ![NewFilters(r)] = lists[ClassDefault]]
  /\ pc' = [pc EXCEPT ![r] = "category"]
  /\ UNCHANGED <<result, policy, toolvars, scimvars>>

\* the loop over category_patterns
DetectCategory(r) ==
  /\ pc[r] = "category"
  /\ obj' = [obj EXCEPT
               ![r].category = ParseCategory(query_lower(r)).category,
               ![r].index_pattern = ParseCategory(query_lower(r)).index_pattern]
  /\ pc' = [pc EXCEPT ![r] = "time_range"]
  /\ UNCHANGED <<rtext, lists, result, policy, toolvars, scimvars>>

\* the loop over time_patterns
ExtractTimeRange(r) ==
  /\ pc[r] = "time_range"
  /\ obj' = [obj EXCEPT ![r].time_range = ParseTimeRange(query_lower(r))]
  /\ pc' = [pc EXCEPT ![r] = "outcome"]
  /\ UNCHANGED <<rtext, lists, result, policy, toolvars, scimvars>>

\* the loop over outcome_patterns
ExtractOutcome(r) ==
  /\ pc[r] = "outcome"
  /\ obj' = [obj EXCEPT ![r].outcome = ParseOutcome(query_lower(r))]
  /\ pc' = [pc EXCEPT ![r] = "country"]
  /\ UNCHANGED <<rtext, lists, result, policy, toolvars, scimvars>>

\* the loop over countries:  intent.filters.append(...)
AppendCountry(r) ==
  /\ pc[r] = "country"
  /\ lists' = [lists EXCEPT ![obj[r].filters] = @ \o ParseCountry(query_lower(r))]
  /\ pc' = [pc EXCEPT ![r] = "protocol"]
  /\ UNCHANGED <<rtext, obj, result, policy, toolvars, scimvars>>

\* the loop over protocols:  intent.filters.append(...)
AppendProtocol(r) ==
  /\ pc[r] = "protocol"
  /\ lists' = [lists EXCEPT ![obj[r].filters] = @ \o ParseProtocol(query_lower(r))]
  /\ pc' = [pc EXCEPT ![r] = "aggregation"]
  /\ UNCHANGED <<rtext, obj, result, policy, toolvars, scimvars>>

\* the aggregation test
DetectAggregation(r) ==
  /\ pc[r] = "aggregation"
  /\ obj' = [obj EXCEPT ![r].aggregation = ParseAggregation(query_lower(r))]
  /\ pc' = [pc EXCEPT ![r] = "parent"]
  /\ UNCHANGED <<rtext, lists, result, policy, toolvars, scimvars>>

\* the loop over parent_patterns, under  if intent.category == 'process' ,
\* and  return intent
AppendParent(r) ==
  /\ pc[r] = "parent"
  /\ lists' = [lists EXCEPT ![obj[r].filters] =
                 @ \o ParseParent(query_lower(r), obj[r].category)]
  /\ pc' = [pc EXCEPT ![r] = "done"]
  /\ UNCHANGED <<rtext, obj, result, policy, toolvars, scimvars>>

\* validate_query_intent is called on the intent parse returned: it reads
\* intent.time_range and intent.aggregation and assigns to nothing but its
\* locals
Validate(r) ==
  /\ pc[r] = "done"
  /\ result' = [result EXCEPT
                  ![r] = Validated(validate_query_intent(IntentOf(r)))]
  /\ UNCHANGED <<pc, rtext, obj, lists, policy, toolvars, scimvars>>

\* generate_esql removing each filter from intent.filters as it renders it
Generate_Consuming(r) ==
  /\ pc[r] = "done"
  /\ result' = [result EXCEPT ![r] = Generated(generate_esql(IntentOf(r)))]
  /\ lists' = [lists EXCEPT ![obj[r].filters] = <<>>]
  /\ UNCHANGED <<pc, rtext, obj, policy, toolvars, scimvars>>

\* generate_esql is called on the intent parse returned: it reads the
\* attributes of the intent and the items of intent.filters and assigns to
\* nothing but its locals
Generate(r) ==
  /\ pc[r] = "done"
  /\ result' = [result EXCEPT ![r] = Generated(generate_esql(IntentOf(r)))]
  /\ UNCHANGED <<pc, rtext, obj, lists, policy, toolvars, scimvars>>

\* the request is answered: the intent and its list are dropped
Discard(r) ==
  /\ pc[r] = "done"
  /\ pc' = [pc EXCEPT ![r] = "idle"]
  /\ rtext' = [rtext EXCEPT ![r] = ""]
  /\ obj' = [obj EXCEPT ![r] = NoObject]
  /\ lists' = IF obj[r].filters = ClassDefault THEN lists
              ELSE [lists EXCEPT ![obj[r].filters] = <<>>]
  /\ result' = [result EXCEPT ![r] = NoResult]
  /\ UNCHANGED <<policy, toolvars, scimvars>>

NextRequests ==
  \E r \in Requests :
    \/ Begin(r)
    \/ DetectCategory(r)
    \/ ExtractTimeRange(r)
    \/ ExtractOutcome(r)
    \/ AppendCountry(r)
    \/ AppendProtocol(r)
    \/ DetectAggregation(r)
    \/ AppendParent(r)
    \/ Validate(r)
    \/ Generate(r)
    \/ Discard(r)

SpecRequests == Init /\ [][NextRequests]_vars

\* C17: every call of validate_query_intent and of generate_esql leaves the
\* intent it is given as it was, attribute by attribute and the content of
\* its list of filters included, and leaves the intents of the other
\* requests and the attributes of ValidationPolicy as they were.
C17_IntentUntouched ==
  [][\A r \in Requests :
       (Validate(r) \/ Generate(r))
         => /\ IntentOf(r)' = IntentOf(r)
            /\ obj' = obj
            /\ lists' = lists
            /\ policy' = policy
            /\ policy' = ValidationPolicy]_vars

\* C17 witness: the validator and then the generator have been called on
\* the intent of a request, which is still what parse returned
C17_Witness ==
  /\ pc[1] = "done"
  /\ rtext[1] = "from russia spawned by cmd"
  /\ result[1].ran
  /\ "query" \in DOMAIN result[1]
  /\ result[1].query
       = "FROM logs-endpoint-* | WHERE event.category == \"process\""
           \o " AND source.geo.country_name == \"Russia\""
           \o " AND process.parent.name == \"cmd\" | LIMIT 100"
  /\ IntentOf(1).filters
       = <<Filter("source.geo.country_name", "Russia"),
           Filter("process.parent.name", "cmd")>>
  /\ pc[2] = "done"
  /\ result[2].ran
  /\ "is_valid" \in DOMAIN result[2]

\* C18: whatever the interleaving of the requests, the intent parse returns
\* for a text is the intent of that text alone; the list of filters of an
\* intent is never the list of the class body nor the list of the intent
\* of another request, and the list of the class body stays empty.
C18_ParseIndependent ==
  /\ lists[ClassDefault] = <<>>
  /\ \A r \in Requests :
       pc[r] # "idle" => obj[r].filters # ClassDefault
  /\ \A r, s \in Requests :
       (r # s /\ pc[r] # "idle" /\ pc[s] # "idle")
         => obj[r].filters # obj[s].filters
  /\ \A r \in Requests :
       pc[r] = "done" => IntentOf(r) = parse(rtext[r])

\* C18 witness: two requests with different texts have been parsed at the
\* same time, each with its own filters
C18_Witness ==
  /\ pc[1] = "done"
  /\ pc[2] = "done"
  /\ rtext[1] = "China ssh"
  /\ rtext[2] = "from russia spawned by cmd"
  /\ IntentOf(1).filters
       = <<Filter("source.geo.country_name", "China"),
           Filter("network.protocol", "ssh")>>
  /\ IntentOf(2).filters
       = <<Filter("source.geo.country_name", "Russia"),
           Filter("process.parent.name", "cmd")>>

\* the position after the first FROM of q, in any letter case, that is
\* followed by white space (0 when there is none)
AfterFrom(q) ==
  IF Contains(upper(q), "FROM ") THEN IndexOf(upper(q), "FROM ") + 5 ELSE 0

\* the source of the FROM clause of the raw query q: what stands between
\* FROM and the next pipe, or the end of the query
FromSource(q) ==
  LET rest == SubSeq(q, AfterFrom(q), Len(q))
  IN strip(IF Contains(rest, "|")
           THEN SubSeq(rest, 1, IndexOf(rest, "|") - 1)
           ELSE rest)

\* the raw query q has a FROM clause: FROM, white space and a source
HasFromClause(q) == AfterFrom(q) > 0 /\ FromSource(q) # ""

\* C19: every raw query without a FROM clause that is given to the tool
\* validate_esql_query comes back with success = false and the error 'No
\* FROM clause found' among its errors.
C19_NoFromClause ==
  (tool = "validate_esql_query" /\ ~HasFromClause(query))
    => /\ "errors" \in DOMAIN response
       /\ response.success = FALSE
       /\ InSeq("No FROM clause found", response.errors)

\* the three allowed index patterns
AllowedSources == {"logs-auth-*", "logs-endpoint-*", "logs-network-*"}

\* C20: every raw query the tool validate_esql_query takes in that holds
\* JOIN or ENRICH, in any letter case, comes back with success = false and
\* an error naming that keyword; and every one whose FROM source is not one
\* of the three allowed index patterns comes back with success = false and
\* a 'not in allowed list' error.
C20_ForbiddenAndSources ==
  (tool = "validate_esql_query" /\ "success" \in DOMAIN response)
    => /\ \A op \in {"JOIN", "ENRICH"} :
            Contains(upper(query), op)
              => /\ response.success = FALSE
                 /\ InSeq("Operation '" \o op \o "' is not allowed",
                          response.errors)
       /\ (HasFromClause(query) /\ FromSource(query) \notin AllowedSources)
            => /\ response.success = FALSE
               /\ \E k \in 1..Len(response.errors) :
                    Contains(response.errors[k], "not in allowed list")

\* the position of the number of a time expression NOW() - Nh that starts
\* at position i of q: after NOW(), optional white space, a minus sign and
\* optional white space
TimeNumberAt(q, i) ==
  RunEnd(q, RunEnd(q, i + 5, Whitespace) + 2, Whitespace) + 1

\* a time expression NOW() - Nh starts at position i of q
TimeExpressionAt(q, i) ==
  /\ MatchAt(q, i, "NOW()")
  /\ MatchAt(q, RunEnd(q, i + 5, Whitespace) + 1, "-")
  /\ RunEnd(q, TimeNumberAt(q, i), Digits) >= TimeNumberAt(q, i)
  /\ MatchAt(q, RunEnd(q, TimeNumberAt(q, i), Digits) + 1, "h")

\* the hours N of all the time expressions NOW() - Nh of q
TimeExpressionHours(q) ==
  {DigitsToNat(SubSeq(q, TimeNumberAt(q, i),
                      RunEnd(q, TimeNumberAt(q, i), Digits)), 0) :
     i \in {k \in 1..Len(q) : TimeExpressionAt(q, k)}}

\* the envelope holds an error that starts with prefix
HasErrorWith(prefix) ==
  \E k \in 1..Len(response.errors) : StartsWith(response.errors[k], prefix)

\* C21: every raw query the tool validate_esql_query takes in that holds a
\* time expression NOW() - Nh with N > 168, be it the first of the query or
\* a later one, comes back with success = false and a time-range error.
C21_EveryTimeExpressionBounded ==
  (/\ tool = "validate_esql_query"
   /\ "success" \in DOMAIN response
   /\ \E n \in TimeExpressionHours(query) : n > MAX_TIME_RANGE_HOURS)
    => /\ response.success = FALSE
       /\ HasErrorWith("Time range ")

\* the positions of q at which a LIMIT clause starts: LIMIT in any letter
\* case, white space and digits
LimitPositions(q) ==
  {i \in 1..Len(q) :
     /\ MatchAt(upper(q), i, "LIMIT")
     /\ RunEnd(q, i + 5, Whitespace) >= i + 5
     /\ RunEnd(q, RunEnd(q, i + 5, Whitespace) + 1, Digits)
          > RunEnd(q, i + 5, Whitespace)}

\* the value of the LIMIT clause that starts at position i of q
LimitAt(q, i) ==
  DigitsToNat(SubSeq(q, RunEnd(q, i + 5, Whitespace) + 1,
                     RunEnd(q, RunEnd(q, i + 5, Whitespace) + 1, Digits)), 0)

\* the value of the last LIMIT clause of q
TrailingLimit(q) ==
  LimitAt(q, CHOOSE i \in LimitPositions(q) : \A j \in LimitPositions(q) : j <= i)

\* C22: every raw query the tool validate_esql_query takes in whose last
\* LIMIT clause has a value above 1000 comes back with success = false and
\* the error 'LIMIT <value> exceeds maximum 1000', whatever LIMIT clauses
\* stand before it.
C22_TrailingLimitBounded ==
  (/\ tool = "validate_esql_query"
   /\ "success" \in DOMAIN response
   /\ LimitPositions(query) # {}
   /\ TrailingLimit(query) > MAX_LIMIT)
    => /\ response.success = FALSE
       /\ InSeq("LIMIT " \o IntToStr(TrailingLimit(query))
                  \o " exceeds maximum 1000", response.errors)

\* C23: in every envelope of validate_esql_query success and valid are true
\* exactly when errors is empty, whatever warnings holds; the warning 'No
\* time filter detected' is there exactly when the query has no time
\* expression NOW() - Nh and no STATS (in any letter case), and it is the
\* only warning.
C23_WarningsNeverBlock ==
  (tool = "validate_esql_query" /\ "success" \in DOMAIN response)
    => /\ response.success = (response.errors = <<>>)
       /\ response.valid = (response.errors = <<>>)
       /\ response.error_count = Len(response.errors)
       /\ response.warning_count = Len(response.warnings)
       /\ response.warnings \in {<<>>, <<"No time filter detected">>}
       /\ response.warnings = <<"No time filter detected">>
            <=> /\ TimeExpressionHours(query) = {}
                /\ ~Contains(upper(query), "STATS")

\* C23 witness: a query from an allowed source without time filter has been
\* found valid, with the warning
C23_Witness ==
  /\ tool = "validate_esql_query"
  /\ query = "FROM logs-auth-* | LIMIT 1000"
  /\ response.success = TRUE
  /\ response.valid = TRUE
  /\ response.errors = <<>>
  /\ response.warnings = <<"No time filter detected">>

\* the number of conditions of the query of intent i that are no filter
\* conditions: the time bound, the category and the outcome
LeadingConditions(i) ==
  (IF PyTruthy(i.time_range) THEN 1 ELSE 0)
    + (IF PyTruthy(i.category) THEN 1 ELSE 0)
    + (IF PyTruthy(i.outcome) THEN 1 ELSE 0)

\* C24: every query generate_esql returns holds one condition per element
\* of intent.filters, after the time, category and outcome conditions: as
\* many filter conditions as the list is long, the k-th being the field,
\* the operator ('==' when the filter has none) and the quoted value of the
\* k-th filter.
C24_EveryFilterRendered ==
  (generation.ran /\ ~generation.raised)
    => LET conds == WhereConditions(generation.query)
           base == LeadingConditions(intent)
       IN /\ Len(conds) - base = Len(intent.filters)
          /\ \A k \in 1..Len(intent.filters) :
               conds[base + k]
                 = PyStr(Get(intent.filters[k], "field", JNull)) \o " "
                     \o PyStr(Get(intent.filters[k], "operator", JStr("==")))
                     \o " \"" \o PyStr(Get(intent.filters[k], "value", JNull))
                     \o "\""

\* the durations, in hours, the sentence e names after 'from the last': X
\* for 'X hours', 24 * X for 'X days'
ExplainedHours(e) ==
  LET i == IndexOf(e, " from the last ") + 15
      j == RunEnd(e, i, Digits)
      x == DigitsToNat(SubSeq(e, i, j), 0)
  IN IF ~Contains(e, " from the last ") THEN {}
     ELSE IF MatchAt(e, j + 1, " days") THEN {24 * x}
     ELSE {x}

\* the word between 'Searching ' and ' events' of the sentence e
ExplainedCategory(e) == SubSeq(e, 11, IndexOf(e, " events") - 1)

\* the word between ' with ' and ' outcome' of the sentence e, or ''
ExplainedOutcome(e) ==
  IF Contains(e, " with ")
  THEN SubSeq(e, IndexOf(e, " with ") + 6, IndexOf(e, " outcome") - 1)
  ELSE ""

\* C25: the explanation translate_nl_to_esql builds agrees with the query it
\* generated from the same intent: it names the duration of the query's
\* bound NOW() - Nh (N hours below 24, N/24 days from 24 on), the category
\* and outcome of the query's conditions, and 'grouped by user' exactly when
\* the query has a STATS ... BY user.name clause.
C25_ExplanationMatchesQuery ==
  (tool = "translate_nl_to_esql" /\ generation.ran /\ ~generation.raised)
    => LET q == generation.query
       IN /\ ExplainedHours(explanation) = TimeExpressionHours(q)
          /\ IF ExplainedCategory(explanation) = "all"
             THEN ~Contains(q, "event.category == ")
             ELSE Contains(q, "event.category == \""
                                \o ExplainedCategory(explanation) \o "\"")
          /\ IF ExplainedOutcome(explanation) = ""
             THEN ~Contains(q, "event.outcome == ")
             ELSE Contains(q, "event.outcome == \""
                                \o ExplainedOutcome(explanation) \o "\"")
          /\ Contains(explanation, " grouped by user")
               <=> (Contains(q, "| STATS ") /\ Contains(q, " BY user.name"))

\* C26: every intent validate_query_intent accepts generates a bounded
\* query: the string generate_esql returns for it holds a lower bound
\* '@timestamp >= NOW() - Nh' with N <= 168 or a STATS clause.
C26_AcceptedIntentBounded ==
  (/\ generation.ran
   /\ ~generation.raised
   /\ validate_query_intent(intent).is_valid)
    => \/ \E n \in TimeExpressionHours(generation.query) :
            /\ n <= MAX_TIME_RANGE_HOURS
            /\ Contains(generation.query, "@timestamp >= NOW() - ")
       \/ Contains(generation.query, "| STATS ")

\* the categories that have an index pattern of their own in generate_esql
SourcedCategories == {JStr("authentication"), JStr("process"), JStr("network")}

\* the errors validate_esql_query gives for the query generated in this call
ReverseErrors == validate_esql_query(ESQLQueryParams(generation.query)).errors

\* the allow-list of validate_esql_query accepts the source of the query
\* generated in this call
SourceAccepted ==
  \A k \in 1..Len(ReverseErrors) :
    /\ ReverseErrors[k] # "No FROM clause found"
    /\ ~EndsWith(ReverseErrors[k], "' not in allowed list")

\* C27: for a text parsed by NLParser.parse and accepted by
\* validate_query_intent, validate_esql_query accepts the FROM source of the
\* query generate_esql builds exactly when the category is authentication,
\* process or network; with the category file or unset the source is
\* 'logs-*' and the reverse validator rejects it as not in the allowed list.
C27_SourceAgreement ==
  (tool = "translate_nl_to_esql" /\ generation.ran /\ ~generation.raised)
    => /\ ESQLQueryParams(generation.query).ok
       /\ SourceAccepted <=> intent.category \in SourcedCategories
       /\ intent.category \in {JNull, JStr("file")}
            => /\ FromSource(generation.query) = "logs-*"
               /\ InSeq("Index 'logs-*' not in allowed list", ReverseErrors)

\* C27 witness: the query generated for 'deleted files today', of category
\* file, reads FROM logs-* and the reverse validator rejects its source
C27_Witness ==
  /\ tool = "translate_nl_to_esql"
  /\ query = "deleted files today"
  /\ intent.category = JStr("file")
  /\ generation.query = "FROM logs-* | WHERE @timestamp >= NOW() - 24h "
                          \o "AND event.category == \"file\" | LIMIT 100"
  /\ ~SourceAccepted

\* the values of the protocol filters of the parsed intent
ProtocolValues ==
  {intent.filters[k].value :
     k \in {i \in 1..Len(intent.filters) :
              intent.filters[i].field = JStr("network.protocol")}}

\* C28: the protocol filter of a parsed text is one of ssh, rdp, http, ftp,
\* smb and never https: a text that holds 'https', and neither 'ssh' nor
\* 'rdp', gets the filter network.protocol == "http".
C28_ProtocolNeverHttps ==
  (tool \in NLTools /\ validation.ran)
    => /\ ProtocolValues
            \subseteq {JStr(p) : p \in {"ssh", "rdp", "http", "ftp", "smb"}}
       /\ (/\ Contains(ParsedText, "https")
           /\ ~Contains(ParsedText, "ssh")
           /\ ~Contains(ParsedText, "rdp"))
            => ProtocolValues = {JStr("http")}

\* C28 witness: 'ftp via HTTPS' has been parsed with the protocol http
C28_Witness ==
  /\ tool \in NLTools
  /\ query = "ftp via HTTPS"
  /\ intent.filters
       = <<[field |-> JStr("network.protocol"), operator |-> JStr("=="),
            value |-> JStr("http")]>>

(***************************************************************************)
(* scripts/scim.py: make_request_with_retry, one statement at a time.      *)
(***************************************************************************)
\* the largest MAX_RETRIES the environment sets
MaxRetriesEnv == 3

\* the values int(os.getenv('MAX_RETRIES', '3')) takes
RetriesValues == (-1)..MaxRetriesEnv

\* the values float(os.getenv('RATE_LIMIT_DELAY', '0.5')) takes, in tenths
\* of a second
RateLimitDelays == {-5, 0, 5}

\* what one requests.request(..., timeout=30) ends in: a response with a
\* status code, or a RequestException (a timeout, a refused connection)
RequestOutcomes ==
  {[raised |-> FALSE, status_code |-> c] : c \in {200, 404, 500, 503}}
    \cup {[raised |-> TRUE, status_code |-> 0]}

\* the test with 'return' only for a successful response
IsFinal_SuccessOnly(status_code) == status_code < 400

\* if response.status_code < 500
IsFinal(status_code) == status_code < 500

RECURSIVE Pow2(_)
\* 2 ** n
Pow2(n) == IF n <= 0 THEN 1 ELSE 2 * Pow2(n - 1)

\* the module is loaded: the configuration is read from the environment
LoadConfiguration ==
  /\ rpc = "unloaded"
  /\ max_retries' \in RetriesValues
  /\ rate_limit_delay' \in RateLimitDelays
  /\ rpc' = "idle"
  /\ UNCHANGED <<attempt, requests_made, sleeps, returned, toolvars, objvars, syncvars>>

\* make_request_with_retry is called:  for attempt in range(MAX_RETRIES)
Call_make_request_with_retry ==
  /\ rpc = "idle"
  /\ attempt' = 0
  /\ requests_made' = <<>>
  /\ sleeps' = <<>>
  /\ returned' = Pending
  /\ rpc' = IF 0 < max_retries THEN "rate_limit" ELSE "give_up"
  /\ UNCHANGED <<max_retries, rate_limit_delay, toolvars, objvars, syncvars>>

\* time.sleep(RATE_LIMIT_DELAY): a negative delay raises ValueError, which
\* the except clause does not catch
RateLimit ==
  /\ rpc = "rate_limit"
  /\ IF rate_limit_delay < 0
     THEN /\ returned' = [kind |-> "ValueError", status_code |-> 0]
          /\ rpc' = "done"
          /\ UNCHANGED sleeps
     ELSE /\ sleeps' = Append(sleeps, [why |-> "rate_limit",
                                       tenths |-> rate_limit_delay])
          /\ rpc' = "request"
          /\ UNCHANGED returned
  /\ UNCHANGED <<max_retries, rate_limit_delay, attempt, requests_made,
                 toolvars, objvars, syncvars>>

\* requests.request(...), the test of the status code and the except clause
Request ==
  /\ rpc = "request"
  /\ \E outcome \in RequestOutcomes :
       /\ requests_made' = Append(requests_made, outcome)
       /\ IF ~outcome.raised /\ IsFinal(outcome.status_code)
          THEN /\ returned' = [kind |-> "response",
                               status_code |-> outcome.status_code]
               /\ rpc' = "done"
          ELSE /\ rpc' = "failed"
               /\ UNCHANGED returned
  /\ UNCHANGED <<max_retries, rate_limit_delay, attempt, sleeps, toolvars,
                 objvars, syncvars>>

\* if attempt < MAX_RETRIES - 1: time.sleep(2 ** attempt) , and the next
\* turn of the loop
Backoff ==
  /\ rpc = "failed"
  /\ sleeps' = IF attempt < max_retries - 1
               THEN Append(sleeps, [why |-> "backoff",
                                    tenths |-> 10 * Pow2(attempt)])
               ELSE sleeps
  /\ attempt' = attempt + 1
  /\ rpc' = IF attempt + 1 < max_retries THEN "rate_limit" ELSE "give_up"
  /\ UNCHANGED <<max_retries, rate_limit_delay, requests_made, returned,
                 toolvars, objvars, syncvars>>

\* the loop is over:  return None
GiveUp ==
  /\ rpc = "give_up"
  /\ returned' = [kind |-> "None", status_code |-> 0]
  /\ rpc' = "done"
  /\ UNCHANGED <<max_retries, rate_limit_delay, attempt, requests_made,
                 sleeps, toolvars, objvars, syncvars>>

\* the caller has the result and goes on
ReturnToCaller ==
  /\ rpc = "done"
  /\ rpc' = "idle"
  /\ UNCHANGED <<max_retries, rate_limit_delay, attempt, requests_made,
                 sleeps, returned, toolvars, objvars, syncvars>>

NextRetry ==
  \/ LoadConfiguration
  \/ Call_make_request_with_retry
  \/ RateLimit
  \/ Request
  \/ Backoff
  \/ GiveUp
  \/ ReturnToCaller

\* the script runs on: every statement it is at is executed
SpecRetry == Init /\ [][NextRetry]_vars /\ WF_vars(NextRetry)

\* the request with this outcome failed: a server error or an exception
Failed(outcome) == outcome.raised \/ outcome.status_code >= 500

\* the sleep sl is a back-off sleep
IsBackoff(sl) == sl.why = "backoff"

\* the seconds, in tenths, of the back-off sleeps of the call, in order
BackoffSleeps == SelectSeq(sleeps, IsBackoff)

\* the attempts MAX_RETRIES allows
AttemptsAllowed == IF max_retries > 0 THEN max_retries ELSE 0

\* what C29 says of a state of a call
RetryBounded ==
  /\ Len(requests_made) <= AttemptsAllowed
  /\ \A k \in 1..(Len(requests_made) - 1) : Failed(requests_made[k])
  /\ \A k \in 1..Len(BackoffSleeps) : BackoffSleeps[k].tenths = 10 * Pow2(k - 1)
  /\ Len(BackoffSleeps) <= Len(requests_made)
  /\ returned.kind = "response"
       => LET last == requests_made[Len(requests_made)]
          IN /\ ~last.raised
             /\ last.status_code < 500
             /\ returned.status_code = last.status_code
  /\ rpc = "done"
       => /\ returned.kind = "None"
               <=> /\ Len(requests_made) = AttemptsAllowed
                   /\ \A k \in 1..Len(requests_made) : Failed(requests_made[k])
          /\ returned.kind \in {"response", "None"}
               => Len(BackoffSleeps)
                    = (IF Len(requests_made) > 0 THEN Len(requests_made) - 1
                       ELSE 0)

\* C29: a call of make_request_with_retry ends after at most MAX_RETRIES
\* requests: it returns the first response with a status below 500 and asks
\* no more; only a status from 500 on or a RequestException is followed by
\* another request; it sleeps 2^attempt seconds between two requests and
\* not after the last; and it returns None exactly when all MAX_RETRIES
\* requests failed.
C29_RetryTerminates ==
  /\ []RetryBounded
  /\ (rpc \in {"rate_limit", "request", "failed", "give_up"}) ~> (rpc = "done")

\* C29 witness: with MAX_RETRIES = 3 a call has failed three times, slept 1
\* and 2 seconds in between, and returned None
C29_Witness ==
  /\ rpc = "done"
  /\ max_retries = 3
  /\ Len(requests_made) = 3
  /\ returned.kind = "None"
  /\ Len(BackoffSleeps) = 2
  /\ BackoffSleeps[2].tenths = 20

(***************************************************************************)
(* scripts/scim.py: the sync script, run after run.  A user is known by    *)
(* its ZITADEL id; its user name is taken to be its id.  Each call of      *)
(* make_request_with_retry is taken by its result.                         *)
(***************************************************************************)
\* the number of users of the directory
MaxUsers == 2

\* the ids of the users ZITADEL can hold
Users == 1..MaxUsers

\* load_state(): the users of the state file, or none when the file is
\* missing or json.load raises
load_state(file) == IF file.readable THEN file.users ELSE {}

\* previous_state = load_state()
LoadState ==
  /\ spc = "load_state"
  /\ previous_state' = load_state(state_file)
  /\ spc' = "test_connection"
  /\ UNCHANGED <<state_file, aws, zitadel_users, current_aws_users,
                 delete_requests, save_outcome, toolvars, objvars, retryvars>>

\* if not test_zitadel_connection(): exit(1)
TestConnection ==
  /\ spc = "test_connection"
  /\ \E connected \in BOOLEAN :
       spc' = IF connected THEN "fetch_zitadel_users" ELSE "exit_1"
  /\ UNCHANGED <<state_file, aws, previous_state, zitadel_users,
                 current_aws_users, delete_requests, save_outcome, toolvars,
                 objvars, retryvars>>

\* zitadel_users = fetch_zitadel_users(): None ends the run with exit(1),
\* no human user with exit(0)
FetchZitadel ==
  /\ spc = "fetch_zitadel_users"
  /\ \/ /\ spc' = "exit_1"
        /\ UNCHANGED zitadel_users
     \/ \E fetched \in SUBSET Users :
          /\ zitadel_users' = fetched
          /\ spc' = IF fetched = {} THEN "exit_0" ELSE "fetch_aws_users"
  /\ UNCHANGED <<state_file, aws, previous_state, current_aws_users,
                 delete_requests, save_outcome, toolvars, objvars, retryvars>>

\* current_aws_users = fetch_aws_users(): {} when the listing fails
FetchAws ==
  /\ spc = "fetch_aws_users"
  /\ \E listed \in BOOLEAN :
       current_aws_users' = IF listed THEN aws ELSE {}
  /\ spc' = "sync"
  /\ UNCHANGED <<state_file, aws, previous_state, zitadel_users,
                 delete_requests, save_outcome, toolvars, objvars, retryvars>>

\* the loop over zitadel_users: sync_user_to_aws creates or updates the
\* user in AWS, or fails
SyncUsers ==
  /\ spc = "sync"
  /\ \E synced \in SUBSET zitadel_users : aws' = aws \cup synced
  /\ spc' = "delete"
  /\ UNCHANGED <<state_file, previous_state, zitadel_users, current_aws_users,
                 delete_requests, save_outcome, toolvars, objvars, retryvars>>

\* the users of the deletion loop without the test  prev_id not in
\* zitadel_users
DeletionCandidates_All(prev, fetched, listed) == prev \cap listed

\* the users the deletion loop sends a DELETE for: in the previous state,
\* not fetched in this run, and in the listing of AWS
DeletionCandidates(prev, fetched, listed) == (prev \ fetched) \cap listed

\* the deletion loop: each DELETE succeeds or fails
ProcessDeletions ==
  /\ spc = "delete"
  /\ delete_requests'
       = DeletionCandidates(previous_state, zitadel_users, current_aws_users)
  /\ \E deleted \in SUBSET delete_requests' : aws' = aws \ deleted
  /\ spc' = "save_state"
  /\ UNCHANGED <<state_file, previous_state, zitadel_users, current_aws_users,
                 save_outcome, toolvars, objvars, retryvars>>

\* save_state({'users': zitadel_users}): the file is written; or open()
\* raises IOError and the file stays; or json.dump raises IOError after
\* open() has truncated the file.  The IOError is logged and the run ends
\* as 'completed' all the same
SaveState ==
  /\ spc = "save_state"
  /\ \/ /\ state_file' = [readable |-> TRUE, users |-> zitadel_users]
        /\ save_outcome' = "State saved successfully"
     \/ /\ UNCHANGED state_file
        /\ save_outcome' = "Failed to save state"
     \/ /\ state_file' = NoStateFile
        /\ save_outcome' = "Failed to save state"
  /\ spc' = "completed"
  /\ UNCHANGED <<aws, previous_state, zitadel_users, current_aws_users,
                 delete_requests, toolvars, objvars, retryvars>>

\* the process is over; the script is started again later
NextRun ==
  /\ spc \in {"exit_0", "exit_1", "completed"}
  /\ spc' = "load_state"
  /\ previous_state' = {}
  /\ zitadel_users' = {}
  /\ current_aws_users' = {}
  /\ delete_requests' = {}
  /\ save_outcome' = "none"
  /\ UNCHANGED <<state_file, aws, toolvars, objvars, retryvars>>

NextSync ==
  \/ LoadState
  \/ TestConnection
  \/ FetchZitadel
  \/ FetchAws
  \/ SyncUsers
  \/ ProcessDeletions
  \/ SaveState
  \/ NextRun

SpecSync == Init /\ [][NextSync]_vars

\* the users of the previous state that are gone from ZITADEL and that this
\* run has not deleted from AWS
Orphans == (previous_state \ zitadel_users) \cap aws

\* the run sends a DELETE only for a user of the state it loaded that it
\* did not fetch
DeletesFromLoadedState ==
  /\ delete_requests \subseteq previous_state \ zitadel_users
  /\ spc \in {"test_connection", "fetch_zitadel_users", "fetch_aws_users",
              "sync", "delete", "save_state"}
       => previous_state = load_state(state_file)

====
